---------------------------- MODULE Spec2Model ----------------------------
(***************************************************************************)
(* MKWLog: the local record store (profiles, time ledger, recent circuits) *)
(* and its CSV codec, modelled from the page script of the application.    *)
(*                                                                         *)
(* A string is a sequence of one-character strings, so that the masks,     *)
(* the regular expressions and the CSV codec work on characters as the     *)
(* code does.  The numbers of the program are never negative, and NaN is   *)
(* the integer below them.  Durations are in thousandths of a second.      *)
(***************************************************************************)
EXTENDS Integers, Sequences, FiniteSets, TLC

VARIABLES
    times,                  \* const times = ref<TimeEntry[]>([])
    profiles,               \* const profiles = ref<Profile[]>([])
    selectedProfileId,      \* const selectedProfileId = ref<string>('')
    selectedCircuit,        \* const selectedCircuit = ref<string>('')
    recentCircuitsList,     \* const recentCircuitsList = ref<string[]>([])
    formState,              \* formState.value.time
    editingTimeId,          \* const editingTimeId = ref<number | null>(null)
    editForm,               \* const editForm = ref<EditFormState>(...)
    pendingImportData,      \* const pendingImportData = ref<TimeEntry[]>([])
    importErrorCount,       \* const importErrorCount = ref(0)
    showImportConfirmation, \* const showImportConfirmation = ref(false)
    showConfetti,           \* const showConfetti = ref(false)
    showRelativeTime,       \* const showRelativeTime = ref(false)
    localStorage,           \* the browser's key-value store, one value per key
    now,                    \* Date.now(), in milliseconds
    lastAlert,              \* the alert() the handler that ran last showed
    lastInput               \* the text the handler that ran last was given: the
                            \* value of a time field, or the text of a file

vars == <<times, profiles, selectedProfileId, selectedCircuit, recentCircuitsList,
          formState, editingTimeId, editForm, pendingImportData, importErrorCount,
          showImportConfirmation, showConfetti, showRelativeTime, localStorage,
          now, lastAlert, lastInput>>

---------------------------------------------------------------------------
(* Characters and JavaScript string primitives *)

NaN == -1
Comma == ","
Quote == "\""
NewLine == "\n"
Space == " "

DigitChars == {"0", "1", "2", "3", "4", "5", "6", "7", "8", "9"}

IsDigit(c) == c \in DigitChars

DigitVal(c) ==
    CASE c = "0" -> 0 [] c = "1" -> 1 [] c = "2" -> 2 [] c = "3" -> 3
      [] c = "4" -> 4 [] c = "5" -> 5 [] c = "6" -> 6 [] c = "7" -> 7
      [] c = "8" -> 8 [] c = "9" -> 9

Min(a, b) == IF a < b THEN a ELSE b
Max(a, b) == IF a > b THEN a ELSE b

\* String.prototype.slice(start, end): negative indices count from the end
JsSlice(s, start, end) ==
    LET n    == Len(s)
        from == IF start < 0 THEN Max(n + start, 0) ELSE Min(start, n)
        to   == IF end < 0 THEN Max(n + end, 0) ELSE Min(end, n)
    IN  IF from < to THEN SubSeq(s, from + 1, to) ELSE <<>>

\* String.prototype.slice(start)
JsSliceFrom(s, start) == JsSlice(s, start, Len(s))

\* value.includes(c), for a one-character c
Includes(s, c) == \E i \in 1..Len(s) : s[i] = c

\* value.replace(/"/g, '') and value.replace(/\D/g, ''): drop the characters
RemoveChar(s, c) == SelectSeq(s, LAMBDA x : x # c)
DigitsOf(s) == SelectSeq(s, IsDigit)

\* String.prototype.trim(): the white space of the model is the blank
RECURSIVE TrimLeft(_)
TrimLeft(s) == IF s # <<>> /\ Head(s) = Space THEN TrimLeft(Tail(s)) ELSE s
RECURSIVE TrimRight(_)
TrimRight(s) ==
    IF s # <<>> /\ s[Len(s)] = Space THEN TrimRight(SubSeq(s, 1, Len(s) - 1)) ELSE s
Trim(s) == TrimRight(TrimLeft(s))

\* String.prototype.split(sep), for a one-character sep: the list of pieces
Split(s, sep) ==
    LET seps  == {i \in 1..Len(s) : s[i] = sep}
        n     == Cardinality(seps)
        at(k) == IF k = 0 THEN 0
                 ELSE IF k = n + 1 THEN Len(s) + 1
                 ELSE CHOOSE i \in seps : Cardinality({j \in seps : j < i}) = k - 1
    IN  [k \in 1..(n + 1) |-> SubSeq(s, at(k - 1) + 1, at(k) - 1)]

\* Array.prototype.join(sep)
RECURSIVE Join(_, _)
Join(parts, sep) ==
    IF parts = <<>> THEN <<>>
    ELSE IF Len(parts) = 1 THEN parts[1]
    ELSE parts[1] \o <<sep>> \o Join(Tail(parts), sep)

\* the length of the longest prefix of s made of digits
RECURSIVE DigitPrefixLen(_)
DigitPrefixLen(s) ==
    IF s # <<>> /\ IsDigit(Head(s)) THEN 1 + DigitPrefixLen(Tail(s)) ELSE 0

\* the value of a string of digits
RECURSIVE DigitsValue(_)
DigitsValue(s) ==
    IF s = <<>> THEN 0 ELSE 10 * DigitsValue(SubSeq(s, 1, Len(s) - 1)) + DigitVal(s[Len(s)])

\* parseInt(s): the leading digits, NaN when there are none
ParseInt(s) ==
    LET k == DigitPrefixLen(s)
    IN  IF k = 0 THEN NaN ELSE DigitsValue(SubSeq(s, 1, k))

\* parseFloat(s) in thousandths: leading digits, then an optional fraction of
\* which the first three digits are kept (no time of the model carries more)
ParseFloatMillis(s) ==
    LET k    == DigitPrefixLen(s)
        rest == SubSeq(s, k + 1, Len(s))
        frac == IF rest # <<>> /\ Head(rest) = "."
                THEN SubSeq(Tail(rest), 1, Min(3, DigitPrefixLen(Tail(rest))))
                ELSE <<>>
        pad  == frac \o SubSeq(<<"0", "0", "0">>, 1, 3 - Len(frac))
    IN  IF k = 0 /\ frac = <<>> THEN NaN
        ELSE 1000 * DigitsValue(SubSeq(s, 1, k)) + DigitsValue(pad)

\* a < b and a > b on numbers that may be NaN: false when either is NaN
NumLess(a, b) == a # NaN /\ b # NaN /\ a < b
NumGreater(a, b) == a # NaN /\ b # NaN /\ a > b

---------------------------------------------------------------------------
(* Time Format Codec *)

MaskDigitCap == 7

\* a faulty mask, which leaves the seconds as typed
formatTimeStringUnclamped(value) ==
    LET digits        == DigitsOf(value)
        limitedDigits == JsSlice(digits, 0, MaskDigitCap)
    IN  IF Len(digits) = 0 THEN <<>>
        ELSE IF Len(limitedDigits) <= 1 THEN limitedDigits
        ELSE IF Len(limitedDigits) <= 3
            THEN JsSlice(limitedDigits, 0, -2) \o <<":">> \o JsSliceFrom(limitedDigits, -2)
        ELSE JsSlice(limitedDigits, 0, -5) \o <<":">> \o JsSlice(limitedDigits, -5, -3)
                 \o <<".">> \o JsSliceFrom(limitedDigits, -3)

\* function formatTimeString(value)
formatTimeString(value) ==
    LET digits        == DigitsOf(value)
        limitedDigits == JsSlice(digits, 0, MaskDigitCap)
    IN  IF Len(digits) = 0 THEN <<>>
        ELSE IF Len(limitedDigits) <= 1 THEN limitedDigits
        ELSE IF Len(limitedDigits) <= 3 THEN
            LET minutes    == JsSlice(limitedDigits, 0, -2)
                seconds    == JsSliceFrom(limitedDigits, -2)
                secondsNum == ParseInt(seconds)
                clamped    == IF NumGreater(secondsNum, 59) THEN <<"5", "9">> ELSE seconds
            IN  minutes \o <<":">> \o clamped
        ELSE
            LET minutes      == JsSlice(limitedDigits, 0, -5)
                seconds      == JsSlice(limitedDigits, -5, -3)
                milliseconds == JsSliceFrom(limitedDigits, -3)
                secondsNum   == ParseInt(seconds)
                clamped      == IF NumGreater(secondsNum, 59) THEN <<"5", "9">> ELSE seconds
            IN  minutes \o <<":">> \o clamped \o <<".">> \o milliseconds

\* /^\d{1,2}:[0-5]\d\.\d{3}$/.test(s)
MatchesStrictRegex(s) ==
    \E m \in {1, 2} :
        /\ Len(s) = m + 7
        /\ \A i \in 1..m : IsDigit(s[i])
        /\ s[m + 1] = ":"
        /\ s[m + 2] \in {"0", "1", "2", "3", "4", "5"}
        /\ IsDigit(s[m + 3])
        /\ s[m + 4] = "."
        /\ \A i \in (m + 5)..(m + 7) : IsDigit(s[i])

\* a faulty import grammar, which takes one minute digit only
MatchesOneMinuteDigit(s) ==
    /\ Len(s) = 8
    /\ IsDigit(s[1])
    /\ s[2] = ":"
    /\ IsDigit(s[3]) /\ IsDigit(s[4])
    /\ s[5] = "."
    /\ \A i \in 6..8 : IsDigit(s[i])

\* /^\d+:\d{2}\.\d{3}$/.test(s)
MatchesLenientRegex(s) ==
    /\ Len(s) >= 8
    /\ LET m == Len(s) - 7
       IN  /\ \A i \in 1..m : IsDigit(s[i])
           /\ s[m + 1] = ":"
           /\ IsDigit(s[m + 2]) /\ IsDigit(s[m + 3])
           /\ s[m + 4] = "."
           /\ \A i \in (m + 5)..(m + 7) : IsDigit(s[i])

\* function isValidTimeFormat(timeStr)
isValidTimeFormat(timeStr) ==
    /\ timeStr # <<>>
    /\ Trim(timeStr) # <<>>
    /\ MatchesStrictRegex(timeStr)
    /\ LET parts       == Split(timeStr, ":")
           minutes     == ParseInt(parts[1])
           secondsPart == Split(parts[2], ".")
           seconds     == ParseInt(secondsPart[1])
       IN  minutes # NaN /\ seconds # NaN /\ minutes >= 0 /\ seconds >= 0 /\ seconds <= 59

\* function convertTimeToSeconds(timeStr), in thousandths of a second
convertTimeToSeconds(timeStr) ==
    LET parts == Split(timeStr, ":")
    IN  IF Len(parts) = 2 THEN
            LET minutes == ParseInt(parts[1])
                seconds == ParseFloatMillis(parts[2])
            IN  IF minutes = NaN \/ seconds = NaN THEN NaN ELSE minutes * 60000 + seconds
        ELSE ParseFloatMillis(timeStr)

---------------------------------------------------------------------------
(* Data model *)

\* a || b on strings: the empty string is falsy
Or(a, b) == IF a # <<>> THEN a ELSE b

\* new Date(n).toISOString(): the text of the clock value
RECURSIVE Decimal(_)
Decimal(n) ==
    LET d == <<"0", "1", "2", "3", "4", "5", "6", "7", "8", "9">>
    IN  IF n < 10 THEN <<d[n + 1]>> ELSE Decimal(n \div 10) \o <<d[(n % 10) + 1]>>
toISOString(n) == <<"T">> \o Decimal(n)

\* new Date(s).getTime(): NaN unless s is the text of a clock value
DateGetTime(s) ==
    IF Len(s) >= 2 /\ Head(s) = "T" /\ DigitPrefixLen(Tail(s)) = Len(s) - 1
    THEN DigitsValue(Tail(s)) ELSE NaN

\* interface TimeEntry
TimeEntry(time, circuit, profileId, date, vehicle, character) ==
    [time |-> time, circuit |-> circuit, profileId |-> profileId, date |-> date,
     vehicle |-> vehicle, character |-> character]

\* interface Profile
Profile(id, name, character, characterSkin, vehicle, createdAt) ==
    [id |-> id, name |-> name, character |-> character,
     characterSkin |-> characterSkin, vehicle |-> vehicle, createdAt |-> createdAt]

\* profiles.value.find((p) => p.id === id): the first match, in a list of
\* at most one element
FindProfile(profs, id) ==
    LET hits == SelectSeq(profs, LAMBDA p : p.id = id)
    IN  IF hits = <<>> THEN <<>> ELSE <<hits[1]>>

\* profile?.field || ''
ProfileField(found, field) == IF found = <<>> THEN <<>> ELSE found[1][field]

---------------------------------------------------------------------------
(* CSV Codec *)

H_time_of_entry == <<"t", "i", "m", "e", "_", "o", "f", "_", "e", "n", "t", "r", "y">>
H_track         == <<"t", "r", "a", "c", "k">>
H_character     == <<"c", "h", "a", "r", "a", "c", "t", "e", "r">>
H_outfit        == <<"o", "u", "t", "f", "i", "t">>
H_kart          == <<"k", "a", "r", "t">>
H_race_time     == <<"r", "a", "c", "e", "_", "t", "i", "m", "e">>

\* const headers = ['time_of_entry', 'track', 'character', 'outfit', 'kart', 'race_time']
expectedHeaders == <<H_time_of_entry, H_track, H_character, H_outfit, H_kart, H_race_time>>

UnknownCharacter ==
    <<"U", "n", "k", "n", "o", "w", "n", " ", "C", "h", "a", "r", "a", "c", "t", "e", "r">>
DefaultOutfit == <<"D", "e", "f", "a", "u", "l", "t">>
StandardKart  == <<"S", "t", "a", "n", "d", "a", "r", "d", " ", "K", "a", "r", "t">>

\* interface CSVTimeEntry, as the list of its values in header order
CsvValues(csvEntry) ==
    <<csvEntry.time_of_entry, csvEntry.track, csvEntry.character, csvEntry.outfit,
      csvEntry.kart, csvEntry.race_time>>

\* function timeEntryToCSV(timeEntry)
timeEntryToCSV(timeEntry, profs) ==
    LET profile == FindProfile(profs, timeEntry.profileId)
    IN  [time_of_entry |-> timeEntry.date,
         track         |-> timeEntry.circuit,
         character     |-> Or(timeEntry.character, Or(ProfileField(profile, "character"), UnknownCharacter)),
         outfit        |-> Or(ProfileField(profile, "characterSkin"), DefaultOutfit),
         kart          |-> Or(timeEntry.vehicle, Or(ProfileField(profile, "vehicle"), StandardKart)),
         race_time     |-> timeEntry.time]

\* value.replace(/"/g, '""')
RECURSIVE DoubleQuotes(_)
DoubleQuotes(s) ==
    IF s = <<>> THEN <<>>
    ELSE (IF Head(s) = Quote THEN <<Quote, Quote>> ELSE <<Head(s)>>) \o DoubleQuotes(Tail(s))

\* the value of one cell of the exported file
\* a faulty cell encoder, which never quotes
CsvCellUnquoted(value) == value

CsvCell(value) ==
    IF Includes(value, Comma) \/ Includes(value, Quote) \/ Includes(value, NewLine)
    THEN <<Quote>> \o DoubleQuotes(value) \o <<Quote>>
    ELSE value

\* headers.map((header) => ...).join(',') for one row
CsvRow(csvEntry) ==
    LET values == CsvValues(csvEntry)
    IN  Join([i \in 1..Len(values) |-> CsvCell(values[i])], Comma)

\* const csvContent = [headers.join(','), ...csvData.map(...)].join('\n')
CsvContent(ts, profs) ==
    Join(<<Join(expectedHeaders, Comma)>>
           \o [i \in 1..Len(ts) |-> CsvRow(timeEntryToCSV(ts[i], profs))],
         NewLine)

\* function parseCSVLine(line): the loop, from position i (counted from 1)
RECURSIVE ParseFrom(_, _, _, _, _)
ParseFrom(line, i, current, inQuotes, result) ==
    IF i > Len(line) THEN Append(result, current)
    ELSE IF line[i] = Quote THEN
        IF inQuotes /\ i + 1 <= Len(line) /\ line[i + 1] = Quote
        THEN ParseFrom(line, i + 2, Append(current, Quote), inQuotes, result)
        ELSE ParseFrom(line, i + 1, current, ~inQuotes, result)
    ELSE IF line[i] = Comma /\ ~inQuotes
        THEN ParseFrom(line, i + 1, <<>>, inQuotes, Append(result, current))
    ELSE ParseFrom(line, i + 1, Append(current, line[i]), inQuotes, result)

parseCSVLine(line) == ParseFrom(line, 1, <<>>, FALSE, <<>>)

---------------------------------------------------------------------------
(* CSV import: the decode run by the file reader's onload callback *)

\* const lines = csvText.split('\n').filter((line) => line.trim())
ImportLines(csvText) == SelectSeq(Split(csvText, NewLine), LAMBDA line : Trim(line) # <<>>)

\* const headers = lines[0].split(',').map((h) => h.trim().replace(/"/g, ''))
ImportHeaders(lines) ==
    LET cells == Split(lines[1], Comma)
    IN  [i \in 1..Len(cells) |-> RemoveChar(Trim(cells[i]), Quote)]

\* a faulty header check, content with one known column
hasSomeHeader(headers) ==
    \E i \in 1..Len(expectedHeaders) :
        \E j \in 1..Len(headers) : headers[j] = expectedHeaders[i]

\* expectedHeaders.every((header) => headers.includes(header))
hasAllHeaders(headers) ==
    \A i \in 1..Len(expectedHeaders) :
        \E j \in 1..Len(headers) : headers[j] = expectedHeaders[i]

\* headers.forEach(...): the value under column `name`, quotes removed; when
\* several columns carry the name the last one wins
HeaderValue(headers, values, name) ==
    LET at == {j \in 1..Len(headers) : headers[j] = name}
    IN  IF at = {} THEN <<>>
        ELSE RemoveChar(values[CHOOSE j \in at : \A k \in at : k <= j], Quote)

CsvEntryOf(headers, values) ==
    [time_of_entry |-> HeaderValue(headers, values, H_time_of_entry),
     track         |-> HeaderValue(headers, values, H_track),
     character     |-> HeaderValue(headers, values, H_character),
     outfit        |-> HeaderValue(headers, values, H_outfit),
     kart          |-> HeaderValue(headers, values, H_kart),
     race_time     |-> HeaderValue(headers, values, H_race_time)]

\* `profile_${Date.now()}_${Math.random().toString(36).substr(2, 9)}`
ImportProfileId(nowv, rnd) == <<"profile", nowv, rnd>>

\* `${csvEntry.character} (${csvEntry.outfit})`
ImportProfileName(csvEntry) ==
    csvEntry.character \o <<" ", "(">> \o csvEntry.outfit \o <<")">>

\* a faulty conversion, which makes a profile for every row
csvToTimeEntryAlwaysNew(csvEntry, profs, nowv, rnd) ==
    LET made == Profile(ImportProfileId(nowv, rnd), ImportProfileName(csvEntry),
                        csvEntry.character, csvEntry.outfit, csvEntry.kart,
                        toISOString(nowv))
    IN  [entry    |-> TimeEntry(csvEntry.race_time, csvEntry.track, made.id,
                                csvEntry.time_of_entry, csvEntry.kart, csvEntry.character),
         profiles |-> Append(profs, made),
         created  |-> TRUE]

\* function csvToTimeEntry(csvEntry): the entry and the registry it leaves
csvToTimeEntry(csvEntry, profs, nowv, rnd) ==
    LET hits == SelectSeq(profs, LAMBDA p : /\ p.character = csvEntry.character
                                            /\ p.characterSkin = csvEntry.outfit
                                            /\ p.vehicle = csvEntry.kart)
        made == Profile(ImportProfileId(nowv, rnd), ImportProfileName(csvEntry),
                        csvEntry.character, csvEntry.outfit, csvEntry.kart,
                        toISOString(nowv))
        profile == IF hits # <<>> THEN hits[1] ELSE made
    IN  [entry    |-> TimeEntry(csvEntry.race_time, csvEntry.track, profile.id,
                                csvEntry.time_of_entry, csvEntry.kart, csvEntry.character),
         profiles |-> IF hits # <<>> THEN profs ELSE Append(profs, made),
         created  |-> hits = <<>>]

\* the verdict of the row loop on one line: "count" (skipped without a
\* report), "missing", "time" (skipped and reported) or "ok"
RowVerdict(headers, line) ==
    LET values == parseCSVLine(line)
    IN  IF Len(values) # Len(headers) THEN "count"
        ELSE LET csvEntry == CsvEntryOf(headers, values)
             IN  IF csvEntry.track = <<>> \/ csvEntry.character = <<>> \/ csvEntry.race_time = <<>>
                 THEN "missing"
                 ELSE IF ~MatchesLenientRegex(csvEntry.race_time) THEN "time"
                 ELSE "ok"

\* a faulty row loop, which stops at the first row it cannot take
RECURSIVE ImportRowsAborting(_, _, _, _, _, _)
ImportRowsAborting(lines, i, headers, acc, nowv, rnds) ==
    IF i > Len(lines) THEN acc
    ELSE IF RowVerdict(headers, lines[i]) # "ok"
        THEN [acc EXCEPT !.errors = Append(@, <<i, RowVerdict(headers, lines[i])>>)]
    ELSE LET conv == csvToTimeEntry(CsvEntryOf(headers, parseCSVLine(lines[i])),
                                    acc.profiles, nowv, rnds[acc.made + 1])
         IN  ImportRowsAborting(lines, i + 1, headers,
                                [newTimes |-> Append(acc.newTimes, conv.entry),
                                 errors   |-> acc.errors,
                                 profiles |-> conv.profiles,
                                 made     |-> IF conv.created THEN acc.made + 1 ELSE acc.made],
                                nowv, rnds)

\* for (let i = 1; i < lines.length; i++) { ... }: line i (counted from 1)
\* onwards; rnds[k] is the random suffix drawn for the k-th profile created
RECURSIVE ImportRows(_, _, _, _, _, _)
ImportRows(lines, i, headers, acc, nowv, rnds) ==
    IF i > Len(lines) THEN acc
    ELSE LET verdict == RowVerdict(headers, lines[i])
         IN  IF verdict = "count" THEN ImportRows(lines, i + 1, headers, acc, nowv, rnds)
             ELSE IF verdict \in {"missing", "time"}
                 THEN ImportRows(lines, i + 1, headers,
                                 [acc EXCEPT !.errors = Append(@, <<i, verdict>>)], nowv, rnds)
             ELSE LET conv == csvToTimeEntry(CsvEntryOf(headers, parseCSVLine(lines[i])),
                                             acc.profiles, nowv, rnds[acc.made + 1])
                  IN  ImportRows(lines, i + 1, headers,
                                 [newTimes |-> Append(acc.newTimes, conv.entry),
                                  errors   |-> acc.errors,
                                  profiles |-> conv.profiles,
                                  made     |-> IF conv.created THEN acc.made + 1 ELSE acc.made],
                                 nowv, rnds)

\* reader.onload: what the decode of csvText ends with.  alert is the
\* message shown: "empty", "header", "novalid" or "none" (the batch is staged)
DecodeCSV(csvText, profs, nowv, rnds) ==
    LET lines   == ImportLines(csvText)
        nothing == [alert |-> "empty", newTimes |-> <<>>, errors |-> <<>>, profiles |-> profs]
    IN  IF Len(lines) < 2 THEN nothing
        ELSE LET headers == ImportHeaders(lines)
             IN  IF ~hasAllHeaders(headers) THEN [nothing EXCEPT !.alert = "header"]
                 ELSE LET acc == ImportRows(lines, 2, headers,
                                            [newTimes |-> <<>>, errors |-> <<>>,
                                             profiles |-> profs, made |-> 0],
                                            nowv, rnds)
                      IN  [alert    |-> IF acc.newTimes = <<>> THEN "novalid" ELSE "none",
                           newTimes |-> acc.newTimes,
                           errors   |-> acc.errors,
                           profiles |-> acc.profiles]

---------------------------------------------------------------------------
(* Persistence Adapter *)

\* JSON.stringify(v): the text is held as its parse tree, so that
\* JSON.parse(JSON.stringify(v)) = v and a text that is no JSON has no tree
JsonStringify(v) == <<"json", v>>
IsJson(text) == Len(text) = 2 /\ text[1] = "json"
JsonParse(text) == text[2]

\* localStorage: each key absent (<<>>) or holding one text (<<text>>)
Absent == <<>>
Stored(text) == <<text>>

\* function autoExportToCSV(): the backup key after the call
autoExportToCSV(ts, profs, backup) ==
    IF Len(ts) = 0 THEN backup ELSE Stored(CsvContent(ts, profs))

\* function saveToLocalStorage(): the store after the call
saveToLocalStorage(ts, profs, recents, relative, store) ==
    [times            |-> Stored(JsonStringify(ts)),
     profiles         |-> Stored(JsonStringify(profs)),
     recentCircuits   |-> Stored(JsonStringify(recents)),
     showRelativeTime |-> Stored(JsonStringify(relative)),
     csvBackup        |-> autoExportToCSV(ts, profs, store.csvBackup)]

EmptyStorage ==
    [times |-> Absent, profiles |-> Absent, recentCircuits |-> Absent,
     showRelativeTime |-> Absent, csvBackup |-> Absent]

---------------------------------------------------------------------------
(* The store after construction *)

EmptyEditForm == [time |-> <<>>, circuit |-> <<>>, character |-> <<>>, vehicle |-> <<>>]
EmptyFormState == [time |-> <<>>, circuit |-> <<>>, profileId |-> <<>>]

\* what alert() showed: nothing, one of the messages of the import decode,
\* or the success message of a commit with its two counts
Alert(kind, count, errors) == [kind |-> kind, count |-> count, errors |-> errors]
NoAlert == Alert("none", 0, 0)

\* the refs of the page as they are declared
Setup ==
    /\ times = <<>>
    /\ profiles = <<>>
    /\ selectedProfileId = <<>>
    /\ selectedCircuit = <<>>
    /\ recentCircuitsList = <<>>
    /\ formState = EmptyFormState
    /\ editingTimeId = <<>>
    /\ editForm = EmptyEditForm
    /\ pendingImportData = <<>>
    /\ importErrorCount = 0
    /\ showImportConfirmation = FALSE
    /\ showConfetti = FALSE
    /\ showRelativeTime = FALSE
    /\ localStorage = EmptyStorage
    /\ now = 0
    /\ lastAlert = NoAlert

Init == Setup /\ lastInput = <<>>

\* the import confirmation is a modal dialog: while it is open the page
\* behind it takes no input
PageActive == ~showImportConfirmation

\* Date.now() advances
Tick(limit) ==
    /\ now < limit
    /\ now' = now + 1
    /\ UNCHANGED <<times, profiles, selectedProfileId, selectedCircuit, recentCircuitsList,
                   formState, editingTimeId, editForm, pendingImportData, importErrorCount,
                   showImportConfirmation, showConfetti, showRelativeTime, localStorage,
                   lastAlert, lastInput>>

---------------------------------------------------------------------------
(* Profile Registry *)

ChooseCharacterLabel ==
    <<"C", "h", "o", "o", "s", "e", " ", "y", "o", "u", "r", " ",
      "c", "h", "a", "r", "a", "c", "t", "e", "r">>
FirstSelectLabel ==
    <<"F", "i", "r", "s", "t", " ", "s", "e", "l", "e", "c", "t", " ", "a", " ",
      "c", "h", "a", "r", "a", "c", "t", "e", "r">>
ChooseVehicleLabel ==
    <<"C", "h", "o", "o", "s", "e", " ", "y", "o", "u", "r", " ",
      "v", "e", "h", "i", "c", "l", "e">>

\* label.includes(text)
IncludesText(label, text) ==
    \E i \in 0..(Len(label) - Len(text)) : SubSeq(label, i + 1, i + Len(text)) = text

\* const canCreateProfile = computed(...)
canCreateProfile(characterLabel, characterSkinLabel, vehicleLabel) ==
    /\ characterLabel # <<>> /\ ~IncludesText(characterLabel, ChooseCharacterLabel)
    /\ characterSkinLabel # <<>> /\ ~IncludesText(characterSkinLabel, FirstSelectLabel)
    /\ vehicleLabel # <<>> /\ ~IncludesText(vehicleLabel, ChooseVehicleLabel)

\* `profile_${Date.now()}`
NewProfileId(nowv) == <<"profile", nowv>>

\* function createProfile(), with the three labels of the form
createProfile(characterLabel, characterSkinLabel, vehicleLabel) ==
    /\ PageActive
    /\ lastAlert' = NoAlert /\ lastInput' = <<>>
    /\ IF ~canCreateProfile(characterLabel, characterSkinLabel, vehicleLabel)
       THEN UNCHANGED <<profiles, localStorage, selectedProfileId>>
       ELSE LET newProfileObj ==
                    Profile(NewProfileId(now),
                            characterLabel \o <<" ", "+", " ">> \o vehicleLabel,
                            characterLabel, characterSkinLabel, vehicleLabel,
                            toISOString(now))
            IN  /\ profiles' = Append(profiles, newProfileObj)
                /\ localStorage' = saveToLocalStorage(times, profiles', recentCircuitsList,
                                                      showRelativeTime, localStorage)
                /\ selectedProfileId' = newProfileObj.id
    /\ UNCHANGED <<times, selectedCircuit, recentCircuitsList, formState, editingTimeId,
                   editForm, pendingImportData, importErrorCount, showImportConfirmation,
                   showConfetti, showRelativeTime, now>>

\* a faulty delete, which takes the times of the profile with it
confirmDeleteProfileCascading(profileId) ==
    /\ PageActive
    /\ lastAlert' = NoAlert /\ lastInput' = <<>>
    /\ profiles' = SelectSeq(profiles, LAMBDA p : p.id # profileId)
    /\ times' = SelectSeq(times, LAMBDA t : t.profileId # profileId)
    /\ selectedProfileId' = IF selectedProfileId = profileId THEN <<>> ELSE selectedProfileId
    /\ localStorage' = saveToLocalStorage(times', profiles', recentCircuitsList,
                                          showRelativeTime, localStorage)
    /\ UNCHANGED <<selectedCircuit, recentCircuitsList, formState, editingTimeId,
                   editForm, pendingImportData, importErrorCount, showImportConfirmation,
                   showConfetti, showRelativeTime, now>>

\* a faulty delete, which leaves the selection on the profile it removes
confirmDeleteProfileKeepingSelection(profileId) ==
    /\ PageActive
    /\ lastAlert' = NoAlert /\ lastInput' = <<>>
    /\ profiles' = SelectSeq(profiles, LAMBDA p : p.id # profileId)
    /\ localStorage' = saveToLocalStorage(times, profiles', recentCircuitsList,
                                          showRelativeTime, localStorage)
    /\ UNCHANGED <<times, selectedProfileId, selectedCircuit, recentCircuitsList, formState,
                   editingTimeId, editForm, pendingImportData, importErrorCount,
                   showImportConfirmation, showConfetti, showRelativeTime, now>>

\* function confirmDeleteProfile(profileId)
confirmDeleteProfile(profileId) ==
    /\ PageActive
    /\ lastAlert' = NoAlert /\ lastInput' = <<>>
    /\ profiles' = SelectSeq(profiles, LAMBDA p : p.id # profileId)
    /\ selectedProfileId' = IF selectedProfileId = profileId THEN <<>> ELSE selectedProfileId
    /\ localStorage' = saveToLocalStorage(times, profiles', recentCircuitsList,
                                          showRelativeTime, localStorage)
    /\ UNCHANGED <<times, selectedCircuit, recentCircuitsList, formState, editingTimeId,
                   editForm, pendingImportData, importErrorCount, showImportConfirmation,
                   showConfetti, showRelativeTime, now>>

\* function selectProfile(profileId)
selectProfile(profileId) ==
    /\ PageActive
    /\ lastAlert' = NoAlert /\ lastInput' = <<>>
    /\ selectedProfileId' = profileId
    /\ UNCHANGED <<times, profiles, selectedCircuit, recentCircuitsList, formState,
                   editingTimeId, editForm, pendingImportData, importErrorCount,
                   showImportConfirmation, showConfetti, showRelativeTime, localStorage, now>>

---------------------------------------------------------------------------
(* Recent circuits *)

RecentCap == 8

\* a faulty move-to-front, which leaves the former occurrence in the list
MoveToFrontKeeping(list, circuit) == JsSlice(<<circuit>> \o list, 0, RecentCap)

\* the move-to-front of addTime and selectCircuit: indexOf, splice, unshift,
\* slice(0, 8)
MoveToFront(list, circuit) ==
    LET at          == {i \in 1..Len(list) : list[i] = circuit}
        first       == IF at = {} THEN 0 ELSE CHOOSE i \in at : \A k \in at : i <= k
        currentList == IF first = 0 THEN list
                       ELSE SubSeq(list, 1, first - 1) \o SubSeq(list, first + 1, Len(list))
    IN  JsSlice(<<circuit>> \o currentList, 0, RecentCap)

\* function selectCircuit(circuit)
selectCircuit(circuit) ==
    /\ PageActive
    /\ lastAlert' = NoAlert /\ lastInput' = <<>>
    /\ selectedCircuit' = circuit
    /\ recentCircuitsList' = MoveToFront(recentCircuitsList, circuit)
    /\ localStorage' = saveToLocalStorage(times, profiles, recentCircuitsList',
                                          showRelativeTime, localStorage)
    /\ UNCHANGED <<times, profiles, selectedProfileId, formState, editingTimeId, editForm,
                   pendingImportData, importErrorCount, showImportConfirmation,
                   showConfetti, showRelativeTime, now>>

\* function selectRecentCircuit(circuit)
selectRecentCircuit(circuit) ==
    /\ PageActive
    /\ lastAlert' = NoAlert /\ lastInput' = <<>>
    /\ selectedCircuit' = circuit
    /\ UNCHANGED <<times, profiles, selectedProfileId, recentCircuitsList, formState,
                   editingTimeId, editForm, pendingImportData, importErrorCount,
                   showImportConfirmation, showConfetti, showRelativeTime, localStorage, now>>

---------------------------------------------------------------------------
(* Time Ledger *)

\* function formatTimeInput(event), event.target.value being value
formatTimeInput(value) ==
    /\ PageActive
    /\ lastAlert' = NoAlert /\ lastInput' = value
    /\ formState' = [formState EXCEPT !.time = formatTimeString(value)]
    /\ UNCHANGED <<times, profiles, selectedProfileId, selectedCircuit, recentCircuitsList,
                   editingTimeId, editForm, pendingImportData, importErrorCount,
                   showImportConfirmation, showConfetti, showRelativeTime, localStorage, now>>

\* Math.min(...list) on numbers that may be NaN
RECURSIVE MathMin(_)
MathMin(list) ==
    IF Len(list) = 1 THEN list[1]
    ELSE LET rest == MathMin(Tail(list))
         IN  IF list[1] = NaN \/ rest = NaN THEN NaN ELSE Min(list[1], rest)

\* a faulty comparison, which takes a time equal to the best for a new best
isNewBestOrEqual(time, circuit, ts) ==
    \A i \in 1..Len(ts) :
        ts[i].circuit = circuit =>
            ~NumLess(convertTimeToSeconds(ts[i].time), convertTimeToSeconds(time))

\* const isNewBest = newTimeSeconds < currentBestTime, of addTime
isNewBest(time, circuit, ts) ==
    LET newTimeSeconds          == convertTimeToSeconds(time)
        existingTimesForCircuit == SelectSeq(ts, LAMBDA t : t.circuit = circuit)
        seconds == [i \in 1..Len(existingTimesForCircuit) |->
                        convertTimeToSeconds(existingTimesForCircuit[i].time)]
    IN  IF Len(existingTimesForCircuit) > 0
        THEN NumLess(newTimeSeconds, MathMin(seconds))
        ELSE newTimeSeconds # NaN

\* a faulty guard, which lets any time through that is not empty
addTimeAcceptsAnyTime ==
    formState.time # <<>> /\ selectedCircuit # <<>> /\ selectedProfileId # <<>>

\* whether addTime goes past its two early returns
addTimeAccepts ==
    /\ formState.time # <<>> /\ selectedCircuit # <<>> /\ selectedProfileId # <<>>
    /\ isValidTimeFormat(formState.time)

\* function addTime()
addTime ==
    /\ PageActive
    /\ lastAlert' = NoAlert /\ lastInput' = <<>>
    /\ IF ~addTimeAccepts
       THEN UNCHANGED <<times, recentCircuitsList, localStorage, showConfetti, formState>>
       ELSE LET profile == FindProfile(profiles, selectedProfileId)
                best    == isNewBest(formState.time, selectedCircuit, times)
                newTime == TimeEntry(formState.time, selectedCircuit, selectedProfileId,
                                     toISOString(now),
                                     ProfileField(profile, "vehicle"),
                                     ProfileField(profile, "character"))
            IN  /\ times' = Append(times, newTime)
                /\ recentCircuitsList' = MoveToFront(recentCircuitsList, selectedCircuit)
                /\ localStorage' = saveToLocalStorage(times', profiles, recentCircuitsList',
                                                      showRelativeTime, localStorage)
                /\ showConfetti' = IF best THEN TRUE ELSE showConfetti
                /\ formState' = [formState EXCEPT !.time = <<>>]
    /\ UNCHANGED <<profiles, selectedProfileId, selectedCircuit, editingTimeId, editForm,
                   pendingImportData, importErrorCount, showImportConfirmation,
                   showRelativeTime, now>>

\* setTimeout(() => { showConfetti.value = false }, 3000), of triggerConfetti
hideConfetti ==
    /\ showConfetti
    /\ showConfetti' = FALSE
    /\ lastAlert' = NoAlert /\ lastInput' = <<>>
    /\ UNCHANGED <<times, profiles, selectedProfileId, selectedCircuit, recentCircuitsList,
                   formState, editingTimeId, editForm, pendingImportData, importErrorCount,
                   showImportConfirmation, showRelativeTime, localStorage, now>>

\* function getActualTimeIndex(timeEntry): positions count from 1, and 0 is
\* the -1 of findIndex
getActualTimeIndex(timeEntry, ts) ==
    LET at == {i \in 1..Len(ts) : /\ ts[i].time = timeEntry.time
                                  /\ ts[i].circuit = timeEntry.circuit
                                  /\ ts[i].date = timeEntry.date
                                  /\ ts[i].profileId = timeEntry.profileId}
    IN  IF at = {} THEN 0 ELSE CHOOSE i \in at : \A k \in at : i <= k

\* times.value.splice(index, 1)
Splice(ts, index) ==
    IF index \in 1..Len(ts)
    THEN SubSeq(ts, 1, index - 1) \o SubSeq(ts, index + 1, Len(ts))
    ELSE ts

\* function confirmRemoveTime(index)
confirmRemoveTime(index) ==
    /\ PageActive
    /\ lastAlert' = NoAlert /\ lastInput' = <<>>
    /\ times' = Splice(times, index)
    /\ localStorage' = saveToLocalStorage(times', profiles, recentCircuitsList,
                                          showRelativeTime, localStorage)
    /\ UNCHANGED <<profiles, selectedProfileId, selectedCircuit, recentCircuitsList,
                   formState, editingTimeId, editForm, pendingImportData, importErrorCount,
                   showImportConfirmation, showConfetti, showRelativeTime, now>>

\* v-if="editingTimeId !== null && editingTimeId === getActualTimeIndex(row.original)":
\* whether the table row of timeEntry shows the edit inputs and buttons
RowInEdit(timeEntry) ==
    editingTimeId # <<>> /\ editingTimeId[1] = getActualTimeIndex(timeEntry, times)

\* whether some row of the table is shown in edit mode
EditRowShown == \E i \in 1..Len(times) : RowInEdit(times[i])

\* function startEdit(timeEntry)
startEdit(timeEntry) ==
    /\ PageActive
    /\ ~RowInEdit(timeEntry)
    /\ lastAlert' = NoAlert /\ lastInput' = <<>>
    /\ LET actualIndex == getActualTimeIndex(timeEntry, times)
           profile     == FindProfile(profiles, timeEntry.profileId)
       IN  IF actualIndex # 0
           THEN /\ editingTimeId' = <<actualIndex>>
                /\ editForm' = [time      |-> timeEntry.time,
                                circuit   |-> timeEntry.circuit,
                                character |-> Or(timeEntry.character,
                                                 ProfileField(profile, "character")),
                                vehicle   |-> Or(timeEntry.vehicle,
                                                 ProfileField(profile, "vehicle"))]
           ELSE UNCHANGED <<editingTimeId, editForm>>
    /\ UNCHANGED <<times, profiles, selectedProfileId, selectedCircuit, recentCircuitsList,
                   formState, pendingImportData, importErrorCount, showImportConfirmation,
                   showConfetti, showRelativeTime, localStorage, now>>

\* function formatEditTimeInput(event), event.target.value being value
formatEditTimeInput(value) ==
    /\ PageActive
    /\ EditRowShown
    /\ lastAlert' = NoAlert /\ lastInput' = value
    /\ editForm' = [editForm EXCEPT !.time = formatTimeString(value)]
    /\ UNCHANGED <<times, profiles, selectedProfileId, selectedCircuit, recentCircuitsList,
                   formState, editingTimeId, pendingImportData, importErrorCount,
                   showImportConfirmation, showConfetti, showRelativeTime, localStorage, now>>

\* v-model="editForm.circuit", "editForm.character", "editForm.vehicle": a
\* choice in one of the three select menus of the row in edit mode
setEditField(field, value) ==
    /\ PageActive
    /\ EditRowShown
    /\ lastAlert' = NoAlert /\ lastInput' = <<>>
    /\ editForm' = [editForm EXCEPT ![field] = value]
    /\ UNCHANGED <<times, profiles, selectedProfileId, selectedCircuit, recentCircuitsList,
                   formState, editingTimeId, pendingImportData, importErrorCount,
                   showImportConfirmation, showConfetti, showRelativeTime, localStorage, now>>

\* whether saveEdit goes past its early return
saveEditAccepts ==
    /\ editForm.time # <<>> /\ editForm.circuit # <<>>
    /\ editForm.character # <<>> /\ editForm.vehicle # <<>>
    /\ editingTimeId # <<>>

\* a faulty edit, which stamps the entry with the date of the edit
EditedEntryRestamped(ts, index, form) ==
    TimeEntry(form.time, form.circuit, ts[index].profileId, toISOString(now),
              form.vehicle, form.character)

\* the entry saveEdit writes at index
EditedEntry(ts, index, form) ==
    TimeEntry(form.time, form.circuit, ts[index].profileId, ts[index].date,
              form.vehicle, form.character)

\* function saveEdit(); times.value[index].profileId throws when the index
\* is past the end, and the handler then stops
saveEdit ==
    /\ PageActive
    /\ EditRowShown
    /\ lastAlert' = NoAlert /\ lastInput' = <<>>
    /\ IF saveEditAccepts /\ editingTimeId[1] \in 1..Len(times)
       THEN /\ times' = [times EXCEPT ![editingTimeId[1]] =
                            EditedEntry(times, editingTimeId[1], editForm)]
            /\ localStorage' = saveToLocalStorage(times', profiles, recentCircuitsList,
                                                  showRelativeTime, localStorage)
            /\ editingTimeId' = <<>>
            /\ editForm' = EmptyEditForm
       ELSE UNCHANGED <<times, localStorage, editingTimeId, editForm>>
    /\ UNCHANGED <<profiles, selectedProfileId, selectedCircuit, recentCircuitsList,
                   formState, pendingImportData, importErrorCount, showImportConfirmation,
                   showConfetti, showRelativeTime, now>>

\* function cancelEdit(), behind the Cancel Edit button of the table head,
\* which is shown while editingTimeId is not null
cancelEdit ==
    /\ PageActive
    /\ editingTimeId # <<>>
    /\ lastAlert' = NoAlert /\ lastInput' = <<>>
    /\ editingTimeId' = <<>>
    /\ editForm' = EmptyEditForm
    /\ UNCHANGED <<times, profiles, selectedProfileId, selectedCircuit, recentCircuitsList,
                   formState, pendingImportData, importErrorCount, showImportConfirmation,
                   showConfetti, showRelativeTime, localStorage, now>>

---------------------------------------------------------------------------
(* CSV export and staged import *)

\* function exportToCSV(); the button is shown when times.length > 0
exportToCSV ==
    /\ PageActive
    /\ Len(times) > 0
    /\ lastAlert' = NoAlert /\ lastInput' = <<>>
    /\ UNCHANGED <<times, profiles, selectedProfileId, selectedCircuit, recentCircuitsList,
                   formState, editingTimeId, editForm, pendingImportData, importErrorCount,
                   showImportConfirmation, showConfetti, showRelativeTime, localStorage, now>>

\* a faulty decode, which writes the rows it takes straight into the ledger
importFromCSVCommitting(csvText, rnds) ==
    /\ PageActive
    /\ LET decoded == DecodeCSV(csvText, profiles, now, rnds)
       IN  /\ profiles' = decoded.profiles
           /\ lastAlert' = Alert(decoded.alert, 0, 0)
           /\ lastInput' = csvText
           /\ times' = times \o decoded.newTimes
           /\ IF decoded.alert = "none"
              THEN /\ pendingImportData' = decoded.newTimes
                   /\ importErrorCount' = Len(decoded.errors)
                   /\ showImportConfirmation' = TRUE
              ELSE UNCHANGED <<pendingImportData, importErrorCount, showImportConfirmation>>
    /\ UNCHANGED <<selectedProfileId, selectedCircuit, recentCircuitsList, formState,
                   editingTimeId, editForm, showConfetti, showRelativeTime, localStorage, now>>

\* function importFromCSV(event): the onload callback of its file reader,
\* csvText being the text of the chosen file
importFromCSV(csvText, rnds) ==
    /\ PageActive
    /\ LET decoded == DecodeCSV(csvText, profiles, now, rnds)
       IN  /\ profiles' = decoded.profiles
           /\ lastAlert' = Alert(decoded.alert, 0, 0)
           /\ lastInput' = csvText
           /\ IF decoded.alert = "none"
              THEN /\ pendingImportData' = decoded.newTimes
                   /\ importErrorCount' = Len(decoded.errors)
                   /\ showImportConfirmation' = TRUE
              ELSE UNCHANGED <<pendingImportData, importErrorCount, showImportConfirmation>>
    /\ UNCHANGED <<times, selectedProfileId, selectedCircuit, recentCircuitsList, formState,
                   editingTimeId, editForm, showConfetti, showRelativeTime, localStorage, now>>

\* function confirmImportReplace()
confirmImportReplace ==
    /\ showImportConfirmation
    /\ lastAlert' = Alert("imported", Len(pendingImportData), importErrorCount)
    /\ lastInput' = <<>>
    /\ times' = pendingImportData
    /\ localStorage' = saveToLocalStorage(times', profiles, recentCircuitsList,
                                          showRelativeTime, localStorage)
    /\ showImportConfirmation' = FALSE
    /\ pendingImportData' = <<>>
    /\ importErrorCount' = 0
    /\ UNCHANGED <<profiles, selectedProfileId, selectedCircuit, recentCircuitsList,
                   formState, editingTimeId, editForm, showConfetti, showRelativeTime, now>>

\* a faulty Append, which puts the staged entries in front
confirmImportPrepend ==
    /\ showImportConfirmation
    /\ lastAlert' = Alert("imported", Len(pendingImportData), importErrorCount)
    /\ lastInput' = <<>>
    /\ times' = pendingImportData \o times
    /\ localStorage' = saveToLocalStorage(times', profiles, recentCircuitsList,
                                          showRelativeTime, localStorage)
    /\ showImportConfirmation' = FALSE
    /\ pendingImportData' = <<>>
    /\ importErrorCount' = 0
    /\ UNCHANGED <<profiles, selectedProfileId, selectedCircuit, recentCircuitsList,
                   formState, editingTimeId, editForm, showConfetti, showRelativeTime, now>>

\* function confirmImportAppend()
confirmImportAppend ==
    /\ showImportConfirmation
    /\ lastAlert' = Alert("imported", Len(pendingImportData), importErrorCount)
    /\ lastInput' = <<>>
    /\ times' = times \o pendingImportData
    /\ localStorage' = saveToLocalStorage(times', profiles, recentCircuitsList,
                                          showRelativeTime, localStorage)
    /\ showImportConfirmation' = FALSE
    /\ pendingImportData' = <<>>
    /\ importErrorCount' = 0
    /\ UNCHANGED <<profiles, selectedProfileId, selectedCircuit, recentCircuitsList,
                   formState, editingTimeId, editForm, showConfetti, showRelativeTime, now>>

\* function cancelImport()
cancelImport ==
    /\ showImportConfirmation
    /\ lastAlert' = NoAlert /\ lastInput' = <<>>
    /\ showImportConfirmation' = FALSE
    /\ pendingImportData' = <<>>
    /\ importErrorCount' = 0
    /\ UNCHANGED <<times, profiles, selectedProfileId, selectedCircuit, recentCircuitsList,
                   formState, editingTimeId, editForm, showConfetti, showRelativeTime,
                   localStorage, now>>

\* <UModal v-model:open="showImportConfirmation">: the dialog is dismissed
\* without any of its buttons
dismissImportModal ==
    /\ showImportConfirmation
    /\ lastAlert' = NoAlert /\ lastInput' = <<>>
    /\ showImportConfirmation' = FALSE
    /\ UNCHANGED <<times, profiles, selectedProfileId, selectedCircuit, recentCircuitsList,
                   formState, editingTimeId, editForm, pendingImportData, importErrorCount,
                   showConfetti, showRelativeTime, localStorage, now>>

\* a faulty reset, which leaves the CSV backup in the store
confirmResetKeepingBackup ==
    /\ PageActive
    /\ lastAlert' = NoAlert /\ lastInput' = <<>>
    /\ localStorage' = [EmptyStorage EXCEPT !.csvBackup = localStorage.csvBackup]
    /\ times' = <<>>
    /\ profiles' = <<>>
    /\ recentCircuitsList' = <<>>
    /\ selectedProfileId' = <<>>
    /\ selectedCircuit' = <<>>
    /\ formState' = EmptyFormState
    /\ editingTimeId' = <<>>
    /\ UNCHANGED <<editForm, pendingImportData, importErrorCount, showImportConfirmation,
                   showConfetti, showRelativeTime, now>>

\* function confirmResetAllData()
confirmResetAllData ==
    /\ PageActive
    /\ lastAlert' = NoAlert /\ lastInput' = <<>>
    /\ localStorage' = EmptyStorage
    /\ times' = <<>>
    /\ profiles' = <<>>
    /\ recentCircuitsList' = <<>>
    /\ selectedProfileId' = <<>>
    /\ selectedCircuit' = <<>>
    /\ formState' = EmptyFormState
    /\ editingTimeId' = <<>>
    /\ UNCHANGED <<editForm, pendingImportData, importErrorCount, showImportConfirmation,
                   showConfetti, showRelativeTime, now>>

---------------------------------------------------------------------------
(* Page load *)

\* watch(() => showRelativeTime.value, ...): the switch of the table header
toggleRelativeTime ==
    /\ PageActive
    /\ lastAlert' = NoAlert /\ lastInput' = <<>>
    /\ showRelativeTime' = ~showRelativeTime
    /\ localStorage' = [localStorage EXCEPT
                            !.showRelativeTime = Stored(JsonStringify(showRelativeTime'))]
    /\ UNCHANGED <<times, profiles, selectedProfileId, selectedCircuit, recentCircuitsList,
                   formState, editingTimeId, editForm, pendingImportData, importErrorCount,
                   showImportConfirmation, showConfetti, now>>

\* one key of loadFromLocalStorage: the value read when the key holds JSON,
\* the value of construction when it is absent; JSON.parse throws otherwise
LoadKey(stored, initial) ==
    IF stored = Absent THEN [value |-> initial, thrown |-> FALSE]
    ELSE IF IsJson(stored[1]) THEN [value |-> JsonParse(stored[1]), thrown |-> FALSE]
    ELSE [value |-> initial, thrown |-> TRUE]

\* [...times.value].sort((a, b) => new Date(b.date).getTime() - new Date(a.date).getTime())[0].circuit:
\* the first entry of the latest date; where a date does not parse the
\* comparator is inconsistent and the engine may put any entry first
MostRecentCircuits(ts) ==
    IF \E i \in 1..Len(ts) : DateGetTime(ts[i].date) = NaN
    THEN {ts[i].circuit : i \in 1..Len(ts)}
    ELSE LET latest == {i \in 1..Len(ts) :
                            \A k \in 1..Len(ts) : DateGetTime(ts[k].date) <= DateGetTime(ts[i].date)}
         IN  {ts[CHOOSE i \in latest : \A k \in latest : i <= k].circuit}

\* onMounted(() => { loadFromLocalStorage(); ... }) on a freshly constructed
\* page: an exception of JSON.parse ends the load where it is thrown
loadFromLocalStorage ==
    LET t == LoadKey(localStorage.times, <<>>)
        p == IF t.thrown THEN [value |-> <<>>, thrown |-> TRUE]
             ELSE LoadKey(localStorage.profiles, <<>>)
        r == IF p.thrown THEN [value |-> <<>>, thrown |-> TRUE]
             ELSE LoadKey(localStorage.recentCircuits, <<>>)
        s == IF r.thrown THEN [value |-> FALSE, thrown |-> TRUE]
             ELSE LoadKey(localStorage.showRelativeTime, FALSE)
    IN  /\ lastAlert' = NoAlert /\ lastInput' = <<>>
        /\ times' = t.value
        /\ profiles' = p.value
        /\ selectedProfileId' = IF Len(p.value) > 0 THEN p.value[1].id ELSE <<>>
        /\ recentCircuitsList' = r.value
        /\ showRelativeTime' = s.value
        /\ IF s.thrown THEN selectedCircuit' = <<>>
           ELSE IF Len(r.value) > 0 THEN selectedCircuit' = r.value[1]
           ELSE IF Len(t.value) > 0 THEN selectedCircuit' \in MostRecentCircuits(t.value)
           ELSE selectedCircuit' = <<>>
        /\ localStorage' = IF s.thrown THEN localStorage
                           ELSE saveToLocalStorage(t.value, p.value, r.value, s.value,
                                                   localStorage)
        /\ formState' = EmptyFormState
        /\ editingTimeId' = <<>>
        /\ editForm' = EmptyEditForm
        /\ pendingImportData' = <<>>
        /\ importErrorCount' = 0
        /\ showImportConfirmation' = FALSE
        /\ showConfetti' = FALSE
        /\ UNCHANGED now

---------------------------------------------------------------------------
(* Display order *)

\* .sort((a, b) => new Date(b.date).getTime() - new Date(a.date).getTime()):
\* the sort is stable, an entry goes in front of those of an older date; a
\* difference that is NaN counts as 0
RECURSIVE InsertByDate(_, _)
InsertByDate(sorted, timeEntry) ==
    IF sorted = <<>> THEN <<timeEntry>>
    ELSE LET last == sorted[Len(sorted)]
         IN  IF NumLess(DateGetTime(last.date), DateGetTime(timeEntry.date))
             THEN Append(InsertByDate(SubSeq(sorted, 1, Len(sorted) - 1), timeEntry), last)
             ELSE Append(sorted, timeEntry)

RECURSIVE SortByDate(_)
SortByDate(list) ==
    IF list = <<>> THEN <<>>
    ELSE InsertByDate(SortByDate(SubSeq(list, 1, Len(list) - 1)), list[Len(list)])

\* a faulty display order, which sorts times.value itself
sortedTimesInPlace(ts) == [value |-> SortByDate(ts), times |-> SortByDate(ts)]

\* const sortedTimes = computed(() => [...times.value].sort(...)): the value
\* of the computed, and times.value after its evaluation
sortedTimesComputed(ts) == [value |-> SortByDate(ts), times |-> ts]

\* the table is rendered: sortedTimes and timeRankings are evaluated.
\* timeRankings sorts the arrays of circuitGroups, which reduce() has built
renderTable ==
    /\ times # <<>>
    /\ times' = sortedTimesComputed(times).times
    /\ UNCHANGED <<profiles, selectedProfileId, selectedCircuit, recentCircuitsList,
                   formState, editingTimeId, editForm, pendingImportData, importErrorCount,
                   showImportConfirmation, showConfetti, showRelativeTime, localStorage,
                   now, lastAlert, lastInput>>

---------------------------------------------------------------------------
(* Ranking *)

\* `${time}-${circuit}-${character}-${vehicle}-${date}`
RankKey(timeEntry) ==
    Join(<<timeEntry.time, timeEntry.circuit, timeEntry.character, timeEntry.vehicle,
           timeEntry.date>>, "-")

\* the keys of circuitGroups, in the order reduce() creates them
RECURSIVE CircuitsOf(_)
CircuitsOf(ts) ==
    IF ts = <<>> THEN <<>>
    ELSE LET before == CircuitsOf(SubSeq(ts, 1, Len(ts) - 1))
             last   == ts[Len(ts)].circuit
         IN  IF \E i \in 1..Len(before) : before[i] = last THEN before
             ELSE Append(before, last)

\* circuitTimes.sort((a, b) => convertTimeToSeconds(a.time) - convertTimeToSeconds(b.time)):
\* the sort is stable, an entry goes behind those that do not come after it;
\* a difference that is NaN counts as 0
RECURSIVE InsertByTime(_, _)
InsertByTime(sorted, timeEntry) ==
    IF sorted = <<>> THEN <<timeEntry>>
    ELSE LET last == sorted[Len(sorted)]
         IN  IF NumLess(convertTimeToSeconds(timeEntry.time), convertTimeToSeconds(last.time))
             THEN Append(InsertByTime(SubSeq(sorted, 1, Len(sorted) - 1), timeEntry), last)
             ELSE Append(sorted, timeEntry)

RECURSIVE SortByTime(_)
SortByTime(circuitTimes) ==
    IF circuitTimes = <<>> THEN <<>>
    ELSE InsertByTime(SortByTime(SubSeq(circuitTimes, 1, Len(circuitTimes) - 1)),
                      circuitTimes[Len(circuitTimes)])

\* the calls of rankings.set(key, ...) for one circuit, in order: ranks 1 to 3
RankSets(circuitTimes) ==
    LET sortedTimes == SortByTime(circuitTimes)
    IN  [k \in 1..Min(3, Len(sortedTimes)) |-> <<RankKey(sortedTimes[k]), k>>]

\* const timeRankings = computed(...): every call of rankings.set, in order
RECURSIVE RankSetsFrom(_, _)
RankSetsFrom(ts, circuitNames) ==
    IF circuitNames = <<>> THEN <<>>
    ELSE RankSets(SelectSeq(ts, LAMBDA t : t.circuit = Head(circuitNames)))
           \o RankSetsFrom(ts, Tail(circuitNames))

timeRankings(ts) == RankSetsFrom(ts, CircuitsOf(ts))

\* function getTimeRanking(timeEntry): the rank the map holds under the key
\* of the entry, which is the one set last; 0 is null
getTimeRanking(timeEntry, ts) ==
    LET sets == timeRankings(ts)
        at   == {k \in 1..Len(sets) : sets[k][1] = RankKey(timeEntry)}
    IN  IF at = {} THEN 0 ELSE sets[CHOOSE k \in at : \A j \in at : j <= k][2]

\* the color of the badge
MedalColor(rank) ==
    CASE rank = 1 -> "gold" [] rank = 2 -> "silver" [] rank = 3 -> "bronze" [] OTHER -> "none"

---------------------------------------------------------------------------
(* The inputs of the model: short names stand for the names of the lists *)

MarioCircuit == <<"M", "C">>
RainbowRoad  == <<"R", "R">>
Mario        == <<"M">>
Luigi        == <<"L">>
StandardBike == <<"B">>

\* the labels the profile form can hold when createProfile is called: a
\* complete choice, and one with the placeholder of the vehicle menu
MarioForm == <<Mario, Mario, StandardBike>>
UnsetForm == <<Mario, Mario, ChooseVehicleLabel \o <<".", ".", ".">> >>

\* what the time inputs can hold when their input event fires
Typed115000 == <<"1", "1", "5", "0", "0", "0">>
Typed120000 == <<"1", "2", "0", "0", "0", "0">>
Typed132    == <<"1", "3", "2">>

\* the random suffixes Math.random() can give
RandomSuffixes == {"r1", "r2"}

\* the lines of the files offered to the import
GoodHeader   == Join(expectedHeaders, Comma)
NoTimeHeader == Join(<<H_time_of_entry, H_track, H_character, H_outfit, H_kart>>, Comma)
StrictTime   == <<"1", ":", "1", "5", ".", "0", "0", "0">>
LenientTime  == <<"1", ":", "7", "5", ".", "0", "0", "0">>
PartialTime  == <<"1", ":", "3", "2">>
CommaCircuit == <<"R", ",", "R">>
ValidRow     == Join(<<toISOString(0), MarioCircuit, Mario, Mario, StandardBike, StrictTime>>, Comma)
LenientRow   == Join(<<<<"X">>, RainbowRoad, Luigi, <<>>, <<>>, LenientTime>>, Comma)
BadTimeRow   == Join(<<toISOString(0), MarioCircuit, Mario, Mario, StandardBike, PartialTime>>, Comma)
NoTrackRow   == Join(<<toISOString(0), <<>>, Mario, Mario, StandardBike, StrictTime>>, Comma)
ShortRow     == Join(<<toISOString(0), MarioCircuit>>, Comma)
BlankRow     == <<Space>>
CommaRow     ==
    Join(<<toISOString(0), <<Quote>> \o CommaCircuit \o <<Quote>>, Mario, Mario, StandardBike,
           StrictTime>>, Comma)

TextOf(lines) == Join(lines, NewLine)

HeaderOnlyText == NoTimeHeader
HeaderlessText == TextOf(<<NoTimeHeader, ShortRow, LenientRow>>)
MixedText      == TextOf(<<GoodHeader, ShortRow, LenientRow, BadTimeRow>>)
CommaText      == TextOf(<<GoodHeader, CommaRow>>)

\* the export of the ledger as it stands, which the user may pick again
ExportedNow == IF Len(times) > 0 THEN {CsvContent(times, profiles)} ELSE {}

\* one draw of Math.random() for each profile the decode of text creates
RandomDraws(text) ==
    LET first == DecodeCSV(text, profiles, now, [i \in 1..Len(text) |-> "r1"])
    IN  [1..(Len(first.profiles) - Len(profiles)) -> RandomSuffixes]

---------------------------------------------------------------------------
(* The page without its import dialog *)

MaxTimes    == 2
MaxProfiles == 1
MaxClock    == 1

Next ==
    \/ Tick(MaxClock)
    \/ \E f \in {MarioForm, UnsetForm} :
         Len(profiles) < MaxProfiles /\ createProfile(f[1], f[2], f[3])
    \/ \E i \in 1..Len(profiles) : confirmDeleteProfile(profiles[i].id)
    \/ \E i \in 1..Len(profiles) : selectProfile(profiles[i].id)
    \/ selectCircuit(MarioCircuit)
    \/ \E i \in 1..Len(recentCircuitsList) : selectRecentCircuit(recentCircuitsList[i])
    \/ formatTimeInput(Typed115000)
    \/ Len(times) < MaxTimes /\ addTime
    \/ hideConfetti
    \/ \E i \in 1..Len(times) :
         ~RowInEdit(times[i]) /\ confirmRemoveTime(getActualTimeIndex(times[i], times))
    \/ \E i \in 1..Len(times) : startEdit(times[i])
    \/ formatEditTimeInput(Typed132)
    \/ setEditField("character", Luigi)
    \/ saveEdit
    \/ cancelEdit
    \/ exportToCSV
    \/ confirmResetAllData
    \/ loadFromLocalStorage
    \/ toggleRelativeTime

Spec == Init /\ [][Next]_vars

---------------------------------------------------------------------------
(* The import dialog, on a ledger built by add *)

ImportTexts == {HeaderOnlyText, HeaderlessText, MixedText, CommaText}

NextImport ==
    \/ Len(profiles) < MaxProfiles /\ createProfile(MarioForm[1], MarioForm[2], MarioForm[3])
    \/ selectCircuit(MarioCircuit)
    \/ formatTimeInput(Typed115000)
    \/ Len(times) < MaxTimes /\ addTime
    \/ exportToCSV
    \/ \E text \in ImportTexts : \E rnds \in RandomDraws(text) : importFromCSV(text, rnds)
    \/ confirmImportReplace
    \/ Len(times) + Len(pendingImportData) <= MaxTimes /\ confirmImportAppend
    \/ cancelImport
    \/ dismissImportModal

SpecImport == Init /\ [][NextImport]_vars

---------------------------------------------------------------------------
(* Export and import again: ledgers of one entry made by add, edit,
   delete-profile and import *)

MaxRoundTripTimes == 1

NextRoundTrip ==
    \/ Len(profiles) < MaxProfiles /\ createProfile(MarioForm[1], MarioForm[2], MarioForm[3])
    \/ \E i \in 1..Len(profiles) : confirmDeleteProfile(profiles[i].id)
    \/ selectCircuit(MarioCircuit)
    \/ formatTimeInput(Typed115000)
    \/ Len(times) < MaxRoundTripTimes /\ addTime
    \/ \E i \in 1..Len(times) : startEdit(times[i])
    \/ formatEditTimeInput(Typed132)
    \/ saveEdit
    \/ cancelEdit
    \/ exportToCSV
    \/ \E text \in {MixedText, CommaText} :
         \E rnds \in RandomDraws(text) : importFromCSV(text, rnds)
    \/ confirmImportReplace

SpecRoundTrip == Init /\ [][NextRoundTrip]_vars

---------------------------------------------------------------------------
(* The mask of the time field, on every short sequence of digits *)

MaskDigits == {"0", "1", "5", "9"}
MaxTyped   == 7

MaskInputs == UNION {[1..n -> MaskDigits] : n \in 1..MaxTyped}

\* the field holds what was typed when its input event fires
InitMask == Setup /\ lastInput \in MaskInputs

NextMask == lastInput # <<>> /\ formatTimeInput(lastInput)

SpecMask == InitMask /\ [][NextMask]_vars

---------------------------------------------------------------------------
(* The decode, on every file of a few rows under the six columns *)

RowPool    == {ValidRow, LenientRow, BadTimeRow, NoTrackRow, ShortRow, BlankRow}
MaxCsvRows == 3

DecodeTexts ==
    {TextOf(<<GoodHeader>> \o rows) : rows \in UNION {[1..n -> RowPool] : n \in 0..MaxCsvRows}}

\* the user has picked a file
InitDecode == Setup /\ lastInput \in DecodeTexts

NextDecode ==
    \/ \E rnds \in RandomDraws(lastInput) : lastInput # <<>> /\ importFromCSV(lastInput, rnds)
    \/ confirmImportReplace
    \/ confirmImportAppend
    \/ cancelImport
    \/ dismissImportModal

SpecDecode == InitDecode /\ [][NextDecode]_vars

---------------------------------------------------------------------------
(* The ranking, on ledgers of up to three times on two circuits; two adds
   never fall into the same millisecond *)

MaxRankTimes == 3
MaxRankClock == 2

NextRank ==
    \/ Tick(MaxRankClock)
    \/ Len(profiles) < MaxProfiles /\ createProfile(MarioForm[1], MarioForm[2], MarioForm[3])
    \/ \E c \in {MarioCircuit, RainbowRoad} : selectCircuit(c)
    \/ \E v \in {Typed115000, Typed120000} : formatTimeInput(v)
    \/ /\ Len(times) < MaxRankTimes
       /\ \A i \in 1..Len(times) : times[i].date # toISOString(now)
       /\ addTime
    \/ \E text \in ExportedNow :
         \E rnds \in RandomDraws(text) : Len(times) = 1 /\ importFromCSV(text, rnds)
    \/ confirmImportAppend
    \/ cancelImport

SpecRank == Init /\ [][NextRank]_vars


---------------------------------------------------------------------------
(* Properties of the time codec and of the ledger *)

\* C1: every time held by the ledger matches the strict grammar
\* m:ss.mmm / mm:ss.mmm with seconds 00-59, after add and after edit alike;
\* an edit that offers "1:32" is never written
C1_LedgerTimesAreStrict ==
    \A i \in 1..Len(times) : isValidTimeFormat(times[i].time)

\* /^\d{1,2}(:[0-5]\d(\.\d{3})?)?$/.test(s)
MatchesMaskGrammar(s) ==
    \E m \in {1, 2} :
        /\ Len(s) \in {m, m + 3, m + 7}
        /\ \A i \in 1..m : IsDigit(s[i])
        /\ Len(s) >= m + 3 =>
             /\ s[m + 1] = ":"
             /\ s[m + 2] \in {"0", "1", "2", "3", "4", "5"}
             /\ IsDigit(s[m + 3])
        /\ Len(s) = m + 7 =>
             /\ s[m + 4] = "."
             /\ \A i \in (m + 5)..(m + 7) : IsDigit(s[i])

\* the input event of the time field has run on the digits typed
MaskApplied == lastInput # <<>> /\ formState.time = formatTimeString(lastInput)

\* C2: for every input of 1 to 7 digits the mask yields a text of the
\* grammar d{1,2}(:[0-5]d(.ddd)?)? that is at most 8 characters long
C2_MaskOutputInGrammar ==
    MaskApplied =>
        /\ MatchesMaskGrammar(formState.time)
        /\ Len(formState.time) <= 8

---------------------------------------------------------------------------
(* Properties of the import dialog *)

\* C3: Replace sets the ledger to exactly the staged entries in staged
\* order; Append sets it to the former ledger followed by the staged entries,
\* every former entry keeping its index and content; after either the
\* staged batch and the error count are empty
C3_CommitSetsLedger ==
    [][ /\ confirmImportReplace =>
             /\ times' = pendingImportData
             /\ pendingImportData' = <<>>
             /\ importErrorCount' = 0
        /\ confirmImportAppend =>
             /\ Len(times') = Len(times) + Len(pendingImportData)
             /\ \A i \in 1..Len(times) : times'[i] = times[i]
             /\ \A j \in 1..Len(pendingImportData) :
                  times'[Len(times) + j] = pendingImportData[j]
             /\ pendingImportData' = <<>>
             /\ importErrorCount' = 0 ]_vars

\* Append has put a staged entry behind an entry made by add
C3_Witness ==
    /\ lastAlert.kind = "imported"
    /\ Len(times) = 2
    /\ times[1].circuit = MarioCircuit /\ times[1].time = StrictTime
    /\ times[2].time = LenientTime
    /\ pendingImportData = <<>>
    /\ importErrorCount = 0

\* C4: neither the decode of a file nor Cancel changes the ledger; while the
\* dialog is open the ledger changes only at Replace or Append
C4_LedgerChangesOnlyAtCommit ==
    [][ /\ (lastInput' \in ImportTexts \/ cancelImport) => times' = times
        /\ (showImportConfirmation /\ times' # times) =>
             (confirmImportReplace \/ confirmImportAppend) ]_vars

\* a file was decoded (its profile is registered) and the batch cancelled,
\* and the ledger holds the one entry made by add
C4_Witness ==
    /\ Len(times) = 1 /\ times[1].circuit = MarioCircuit
    /\ \E i \in 1..Len(profiles) : profiles[i].character = Luigi
    /\ pendingImportData = <<>>
    /\ ~showImportConfirmation
    /\ lastAlert = NoAlert

\* a value free of the characters the CSV syntax uses
IsPlain(value) ==
    ~Includes(value, Comma) /\ ~Includes(value, Quote) /\ ~Includes(value, NewLine)

\* every value the export writes for the ledger is plain
LedgerIsPlain ==
    \A i \in 1..Len(times) :
        LET values == CsvValues(timeEntryToCSV(times[i], profiles))
        IN  \A k \in 1..Len(values) : IsPlain(values[k])

\* C5: for every ledger without comma, quote or newline in its values, the
\* decode of its export followed by Replace gives a ledger equal to the
\* former one entry by entry in date, circuit, character, vehicle and time,
\* each entry resolved to a profile that carries the exported outfit
C5_ExportImportRoundTrip ==
    (Len(times) > 0 /\ LedgerIsPlain) =>
        LET text == CsvContent(times, profiles)
        IN  \A rnds \in RandomDraws(text) :
                LET decoded == DecodeCSV(text, profiles, now, rnds)
                IN  /\ decoded.alert = "none"
                    /\ Len(decoded.newTimes) = Len(times)
                    /\ \A i \in 1..Len(times) :
                         LET back  == decoded.newTimes[i]
                             found == FindProfile(decoded.profiles, back.profileId)
                         IN  /\ back.date = times[i].date
                             /\ back.circuit = times[i].circuit
                             /\ back.character = times[i].character
                             /\ back.vehicle = times[i].vehicle
                             /\ back.time = times[i].time
                             /\ ProfileField(found, "characterSkin")
                                  = timeEntryToCSV(times[i], profiles).outfit

\* C6: a value that holds a comma is written between double quotes, and
\* parseCSVLine gives back the values of the row, as many as were written
C6_CommaValueIsQuoted ==
    \A i \in 1..Len(times) :
        LET values == CsvValues(timeEntryToCSV(times[i], profiles))
            row    == CsvRow(timeEntryToCSV(times[i], profiles))
            quoted == [k \in 1..Len(values) |->
                         IF Includes(values[k], Comma)
                         THEN <<Quote>> \o values[k] \o <<Quote>> ELSE values[k]]
        IN  (\A k \in 1..Len(values) :
                 ~Includes(values[k], Quote) /\ ~Includes(values[k], NewLine)) =>
                /\ row = Join(quoted, Comma)
                /\ Len(parseCSVLine(row)) = Len(values)
                /\ parseCSVLine(row) = values

\* the ledger holds an entry whose circuit has a comma, and the backup of
\* the ledger was written with a quoted cell
C6_Witness ==
    /\ \E i \in 1..Len(times) : times[i].circuit = CommaCircuit
    /\ localStorage.csvBackup # Absent
    /\ Includes(localStorage.csvBackup[1], Quote)

\* the header line of the text lacks one of the six columns
HeaderLacksColumn(text) ==
    LET lines == Split(text, NewLine)
        cells == Split(lines[1], Comma)
    IN  \E k \in 1..Len(expectedHeaders) :
            \A j \in 1..Len(cells) : cells[j] # expectedHeaders[k]

\* the text has a line that is not blank behind its header line
HasDataRow(text) ==
    LET lines == Split(text, NewLine)
    IN  \E i \in 2..Len(lines) : \E j \in 1..Len(lines[i]) : lines[i][j] # Space

\* C7 as written: a text whose header lacks a required column fails with
\* the header-mismatch message and leaves ledger, registry and staged batch
\* as they were, whatever its data rows hold
C7_HeaderMismatchAlways ==
    [][ (lastInput' \in ImportTexts /\ HeaderLacksColumn(lastInput')) =>
            /\ lastAlert'.kind = "header"
            /\ UNCHANGED <<times, profiles, pendingImportData>> ]_vars

\* C7: a text whose header lacks a required column leaves ledger, registry
\* and staged batch as they were; it fails with the header-mismatch message
\* when a data row follows the header and with the empty-file message when
\* none does
C7_HeaderMismatchCommitsNothing ==
    [][ (lastInput' \in ImportTexts /\ HeaderLacksColumn(lastInput')) =>
            /\ lastAlert'.kind = IF HasDataRow(lastInput') THEN "header" ELSE "empty"
            /\ UNCHANGED <<times, profiles, pendingImportData>> ]_vars

\* a file without the race_time column was refused with the header-mismatch
\* message while ledger, registry and staged batch were not empty
C7_Witness ==
    /\ lastAlert.kind = "header"
    /\ lastInput = HeaderlessText
    /\ times # <<>>
    /\ profiles # <<>>
    /\ pendingImportData # <<>>

---------------------------------------------------------------------------
(* Properties of the decode *)

\* the lines of the text behind its header that are not blank
DataRows(text) == Tail(ImportLines(text))

\* the data rows the row loop takes, in file order
ValidRows(text) ==
    SelectSeq(DataRows(text),
              LAMBDA line : RowVerdict(ImportHeaders(ImportLines(text)), line) = "ok")

\* the five values of a row that an entry is made of
RowFields(text, line) ==
    LET csvEntry == CsvEntryOf(ImportHeaders(ImportLines(text)), parseCSVLine(line))
    IN  <<csvEntry.time_of_entry, csvEntry.track, csvEntry.character, csvEntry.kart,
          csvEntry.race_time>>

EntryFields(timeEntry) ==
    <<timeEntry.date, timeEntry.circuit, timeEntry.character, timeEntry.vehicle,
      timeEntry.time>>

\* the decode of lastInput has staged a batch that awaits its confirmation
DecodeStaged == lastInput # <<>> /\ showImportConfirmation

\* the decode of lastInput has ended, with a staged batch or with a message
DecodeEnded == lastInput # <<>> /\ (showImportConfirmation \/ lastAlert.kind # "none")

\* C8: the error count is the number of rows skipped, those skipped for
\* their number of fields included: staged entries and errors add up to the
\* data rows that are not blank
C8_ErrorCountIsSkippedRows ==
    DecodeStaged =>
        /\ importErrorCount = Len(DataRows(lastInput)) - Len(ValidRows(lastInput))
        /\ Len(pendingImportData) + importErrorCount = Len(DataRows(lastInput))

---------------------------------------------------------------------------
(* Properties of the ranking *)

\* the 1-based position of entry i of the ledger among the entries of its
\* circuit in a stable sort by time
CircuitPosition(i) ==
    1 + Cardinality({j \in 1..Len(times) :
            /\ times[j].circuit = times[i].circuit
            /\ \/ NumLess(convertTimeToSeconds(times[j].time),
                          convertTimeToSeconds(times[i].time))
               \/ /\ convertTimeToSeconds(times[j].time) = convertTimeToSeconds(times[i].time)
                  /\ j < i})

\* C10: the rank looked up for an entry is its position in the stable sort
\* by time of the entries of its circuit; ranks 1, 2, 3 show gold, silver,
\* bronze and an entry at position 4 or later has no medal
C10_RankIsSortPosition ==
    \A i \in 1..Len(times) :
        LET position == CircuitPosition(i)
            rank     == getTimeRanking(times[i], times)
        IN  /\ rank = IF position <= 3 THEN position ELSE 0
            /\ MedalColor(rank) = CASE position = 1 -> "gold"
                                    [] position = 2 -> "silver"
                                    [] position = 3 -> "bronze"
                                    [] OTHER -> "none"

---------------------------------------------------------------------------
(* Personal bests: two profiles, made a millisecond apart before any time
   is added, two circuits and two times *)

LuigiForm == <<Luigi, Luigi, StandardBike>>

MaxBestTimes    == 2
MaxBestProfiles == 2

NextBest ==
    \/ Len(profiles) = 1 /\ times = <<>> /\ Tick(MaxClock)
    \/ \E f \in {MarioForm, LuigiForm} :
         /\ Len(profiles) < MaxBestProfiles
         /\ \A i \in 1..Len(profiles) : profiles[i].id # NewProfileId(now)
         /\ createProfile(f[1], f[2], f[3])
    \/ \E i \in 1..Len(profiles) : selectProfile(profiles[i].id)
    \/ \E c \in {MarioCircuit, RainbowRoad} : selectCircuit(c)
    \/ \E v \in {Typed115000, Typed120000} : formatTimeInput(v)
    \/ Len(times) < MaxBestTimes /\ addTime
    \/ hideConfetti

SpecBest == Init /\ [][NextBest]_vars

\* the step is an add that went past its guards
AddAccepted == PageActive /\ Len(times') = Len(times) + 1 /\ formState' # formState

\* the time in the form is strictly smaller than the time of every entry of
\* the ledger on the selected circuit
BeatsEveryEntry ==
    \A i \in 1..Len(times) :
        times[i].circuit = selectedCircuit =>
            convertTimeToSeconds(formState.time) < convertTimeToSeconds(times[i].time)

---------------------------------------------------------------------------
(* The registry and the ledger it feeds: two profiles, which may be made
   within one millisecond, and the times added under them *)

MaxRegistryProfiles == 2
MaxRegistryTimes    == 2

\* the clock advances while the ledger is still empty
NextRegistry ==
    \/ times = <<>> /\ Tick(MaxClock)
    \/ \E f \in {MarioForm, LuigiForm} :
         Len(profiles) < MaxRegistryProfiles /\ createProfile(f[1], f[2], f[3])
    \/ \E i \in 1..Len(profiles) : selectProfile(profiles[i].id)
    \/ \E i \in 1..Len(profiles) : confirmDeleteProfile(profiles[i].id)
    \/ selectCircuit(MarioCircuit)
    \/ formatTimeInput(Typed115000)
    \/ Len(times) < MaxRegistryTimes /\ addTime

SpecRegistry == Init /\ [][NextRegistry]_vars

\* the step is the delete of a profile: the registry loses the profiles of
\* one id and is saved
DeleteStep ==
    /\ PageActive
    /\ profiles' # profiles
    /\ \E i \in 1..Len(profiles) :
         profiles' = SelectSeq(profiles, LAMBDA p : p.id # profiles[i].id)
    /\ localStorage'.profiles = Stored(JsonStringify(profiles'))

\* C12: the delete of a profile never cascades: the ledger keeps its length
\* and order and every entry keeps time, circuit, character, vehicle, date
\* and profileId, those of the deleted profile included; of the state in
\* memory only the registry and the active profile change
C12_DeleteNeverCascades ==
    [][ DeleteStep =>
            /\ Len(times') = Len(times)
            /\ \A i \in 1..Len(times) :
                 /\ times'[i].time = times[i].time
                 /\ times'[i].circuit = times[i].circuit
                 /\ times'[i].character = times[i].character
                 /\ times'[i].vehicle = times[i].vehicle
                 /\ times'[i].date = times[i].date
                 /\ times'[i].profileId = times[i].profileId
            /\ UNCHANGED <<selectedCircuit, recentCircuitsList, formState>> ]_vars

\* the profile of both entries of the ledger was deleted while it was the
\* active one, and the registry was saved without it
C12_Witness ==
    /\ Len(times) = 2
    /\ \A i \in 1..Len(times) :
         /\ times[i].character = Mario
         /\ \A k \in 1..Len(profiles) : profiles[k].id # times[i].profileId
    /\ Len(profiles) = 1
    /\ selectedProfileId = <<>>
    /\ localStorage.profiles = Stored(JsonStringify(profiles))

\* C15: no two profiles of the registry share an id, whenever they were
\* made, two creations within one millisecond included
C15_ProfileIdsUnique ==
    \A i, j \in 1..Len(profiles) : i # j => profiles[i].id # profiles[j].id

---------------------------------------------------------------------------
(* The edit of a row: times added at two instants, edited with a partial
   or an emptied time and another character, the other row removed while
   one is in edit *)

MaxEditTimes == 2

\* the clock advances between the first add and the second, outside an edit
NextEdit ==
    \/ Len(times) = 1 /\ editingTimeId = <<>> /\ Tick(MaxClock)
    \/ Len(profiles) < MaxProfiles /\ createProfile(MarioForm[1], MarioForm[2], MarioForm[3])
    \/ selectCircuit(MarioCircuit)
    \/ formatTimeInput(Typed115000)
    \/ Len(times) < MaxEditTimes /\ addTime
    \/ \E i \in 1..Len(times) :
         ~RowInEdit(times[i]) /\ confirmRemoveTime(getActualTimeIndex(times[i], times))
    \/ \E i \in 1..Len(times) : startEdit(times[i])
    \/ \E v \in {Typed132, <<>>} : formatEditTimeInput(v)
    \/ setEditField("character", Luigi)
    \/ saveEdit
    \/ cancelEdit

SpecEdit == Init /\ [][NextEdit]_vars

\* one of the four fields of the edit form is empty
EditFormIncomplete ==
    \/ editForm.time = <<>> \/ editForm.circuit = <<>>
    \/ editForm.character = <<>> \/ editForm.vehicle = <<>>

\* C13: an edit overwrites only the time, circuit, character and vehicle of
\* the entry at the edited index: the profileId and the date of that entry,
\* the length of the ledger and every other entry stay as they were; an
\* edit with one of the four fields empty changes nothing in the ledger
C13_EditOverwritesFourFields ==
    [][ saveEdit =>
            /\ Len(times') = Len(times)
            /\ \A i \in 1..Len(times) :
                 IF i = editingTimeId[1]
                 THEN /\ times'[i].profileId = times[i].profileId
                      /\ times'[i].date = times[i].date
                      /\ ~EditFormIncomplete =>
                           /\ times'[i].time = editForm.time
                           /\ times'[i].circuit = editForm.circuit
                           /\ times'[i].character = editForm.character
                           /\ times'[i].vehicle = editForm.vehicle
                 ELSE times'[i] = times[i]
            /\ EditFormIncomplete => times' = times ]_vars

\* the first of two times, added a millisecond apart, was edited to another
\* time and character and keeps its date and profile
C13_Witness ==
    /\ Len(times) = 2
    /\ times[1].time = PartialTime /\ times[1].character = Luigi
    /\ times[1].date = toISOString(0) /\ times[1].profileId = NewProfileId(0)
    /\ times[2].time = StrictTime /\ times[2].character = Mario
    /\ times[2].date = toISOString(1)
    /\ now = 1
    /\ editingTimeId = <<>>

---------------------------------------------------------------------------
(* The add of a time, with a full, a partial or no time in the form and
   with or without a circuit and a profile *)

MaxAddTimes == 2

NextAdd ==
    \/ Len(profiles) < MaxProfiles /\ createProfile(MarioForm[1], MarioForm[2], MarioForm[3])
    \/ \E i \in 1..Len(profiles) : confirmDeleteProfile(profiles[i].id)
    \/ \E c \in {MarioCircuit, RainbowRoad} : selectCircuit(c)
    \/ \E v \in {Typed115000, Typed132, <<>>} : formatTimeInput(v)
    \/ Len(times) < MaxAddTimes /\ addTime
    \/ hideConfetti

SpecAdd == Init /\ [][NextAdd]_vars

\* the form holds what an add takes: a time of the strict grammar, a
\* circuit and a profile
AddFormValid ==
    /\ MatchesStrictRegex(formState.time)
    /\ selectedCircuit # <<>>
    /\ selectedProfileId # <<>>

---------------------------------------------------------------------------
(* The recent circuits: circuits picked for the first time in a fixed
   order, the first of them picked again, and times added *)

MaxCircuits    == 9
MaxRecentTimes == 1

CircuitNames == [k \in 1..MaxCircuits |-> <<"C">> \o Decimal(k)]

\* the first circuit the list does not hold yet
NewCircuit ==
    LET fresh == {k \in 1..MaxCircuits :
                     \A i \in 1..Len(recentCircuitsList) : recentCircuitsList[i] # CircuitNames[k]}
    IN  {CircuitNames[k] : k \in {j \in fresh : \A m \in fresh : j <= m}}

\* the circuit picked first of all, while the list holds it
FirstCircuit ==
    {recentCircuitsList[i] : i \in {j \in 1..Len(recentCircuitsList) :
                                        recentCircuitsList[j] = CircuitNames[1]}}

NextRecent ==
    \/ Len(profiles) < MaxProfiles /\ createProfile(MarioForm[1], MarioForm[2], MarioForm[3])
    \/ \E c \in NewCircuit \cup FirstCircuit : selectCircuit(c)
    \/ \E c \in FirstCircuit : selectRecentCircuit(c)
    \/ formatTimeInput(Typed115000)
    \/ Len(times) < MaxRecentTimes /\ addTime

SpecRecent == Init /\ [][NextRecent]_vars

\* the step is a pick in the menu of all circuits
SelectStep == \E k \in 1..MaxCircuits : selectCircuit(CircuitNames[k])

\* list without the name
Without(list, name) == SelectSeq(list, LAMBDA c : c # name)

\* C16: the recent list holds at most 8 names and none twice; after an add
\* that is taken or a pick of a circuit its first name is that circuit and
\* the other names it keeps are the former ones in their former order, the
\* oldest dropped when the list is full; no other step changes the list
C16_RecentListMovesToFront ==
    [][ /\ Len(recentCircuitsList') <= 8
        /\ \A i, j \in 1..Len(recentCircuitsList') :
             i # j => recentCircuitsList'[i] # recentCircuitsList'[j]
        /\ IF AddAccepted \/ SelectStep
           THEN /\ recentCircuitsList'[1] = selectedCircuit'
                /\ Tail(recentCircuitsList')
                     = SubSeq(Without(recentCircuitsList, selectedCircuit'), 1,
                              Len(recentCircuitsList') - 1)
                /\ Len(recentCircuitsList')
                     = Min(8, Len(Without(recentCircuitsList, selectedCircuit')) + 1)
           ELSE recentCircuitsList' = recentCircuitsList ]_vars

\* the ninth circuit was picked into a full list: the first one picked is
\* dropped and the others stand in their order behind the ninth
C16_Witness ==
    /\ Len(recentCircuitsList) = 8
    /\ recentCircuitsList[1] = CircuitNames[9]
    /\ \A i \in 2..8 : recentCircuitsList[i] = CircuitNames[10 - i]
    /\ selectedCircuit = CircuitNames[9]

---------------------------------------------------------------------------
(* Properties of the persisted records *)

\* C17: once an operation has changed the ledger or the registry and has
\* returned, the persisted times are the ledger and the persisted profiles
\* are the registry; the profiles an import decode registers are included
C17_WriteThrough ==
    (times # <<>> \/ profiles # <<>>) =>
        /\ localStorage.times = Stored(JsonStringify(times))
        /\ localStorage.profiles = Stored(JsonStringify(profiles))

\* C18: after every change of the ledger that is saved (add, edit, remove,
\* Replace, Append) the persisted CSV backup is the CSV text of the ledger
\* as it now stands; once the last entry is removed its row is gone from
\* the backup
C18_BackupFollowsLedger ==
    [][ (times' # times /\ localStorage'.times # Absent) =>
            localStorage'.csvBackup = Stored(CsvContent(times', profiles')) ]_vars

---------------------------------------------------------------------------
(* The page load: a fresh page over a store in which each record is
   absent, well formed or not JSON *)

StoredEntry ==
    TimeEntry(StrictTime, MarioCircuit, NewProfileId(0), toISOString(0), StandardBike, Mario)
StoredProfile ==
    Profile(NewProfileId(0), Mario \o <<" ", "+", " ">> \o StandardBike, Mario, Mario,
            StandardBike, toISOString(0))

\* a text that JSON.parse rejects
Malformed == <<"{">>

\* what one record of the store can hold when the page is opened
RecordTexts(value) == {Absent, Stored(JsonStringify(value)), Stored(Malformed)}

LoadStores ==
    [times            : RecordTexts(<<StoredEntry>>),
     profiles         : RecordTexts(<<StoredProfile>>),
     recentCircuits   : RecordTexts(<<RainbowRoad, MarioCircuit>>),
     showRelativeTime : RecordTexts(TRUE),
     csvBackup        : {Absent}]

InitLoad ==
    /\ times = <<>>
    /\ profiles = <<>>
    /\ selectedProfileId = <<>>
    /\ selectedCircuit = <<>>
    /\ recentCircuitsList = <<>>
    /\ formState = EmptyFormState
    /\ editingTimeId = <<>>
    /\ editForm = EmptyEditForm
    /\ pendingImportData = <<>>
    /\ importErrorCount = 0
    /\ showImportConfirmation = FALSE
    /\ showConfetti = FALSE
    /\ showRelativeTime = FALSE
    /\ localStorage \in LoadStores
    /\ now = 0
    /\ lastAlert = NoAlert
    /\ lastInput = <<>>

NextLoad ==
    \/ loadFromLocalStorage
    \/ toggleRelativeTime
    \/ selectCircuit(MarioCircuit)

SpecLoad == InitLoad /\ [][NextLoad]_vars

\* what the load owes to one record: its value when it holds JSON, the
\* value of construction when it is absent or not JSON
Loaded(stored, initial) ==
    IF stored # Absent /\ IsJson(stored[1]) THEN JsonParse(stored[1]) ELSE initial

\* C19: the load never fails as a whole: each record by itself, when absent
\* or not JSON, gives the empty value of its key in memory, and the other
\* records are loaded all the same
C19_LoadDegradesPerKey ==
    [][ loadFromLocalStorage =>
            /\ times' = Loaded(localStorage.times, <<>>)
            /\ profiles' = Loaded(localStorage.profiles, <<>>)
            /\ recentCircuitsList' = Loaded(localStorage.recentCircuits, <<>>)
            /\ showRelativeTime' = Loaded(localStorage.showRelativeTime, FALSE) ]_vars

---------------------------------------------------------------------------
(* The full reset, on a store with a profile, a time, recent circuits and
   the relative-date preference *)

MaxResetTimes == 1

NextReset ==
    \/ Len(profiles) < MaxProfiles /\ createProfile(MarioForm[1], MarioForm[2], MarioForm[3])
    \/ \E c \in {MarioCircuit, RainbowRoad} : selectCircuit(c)
    \/ formatTimeInput(Typed115000)
    \/ Len(times) < MaxResetTimes /\ addTime
    \/ \E i \in 1..Len(times) : startEdit(times[i])
    \/ toggleRelativeTime
    \/ confirmResetAllData

SpecReset == Init /\ [][NextReset]_vars

\* C20: the full reset clears everything in one step: right after it the
\* ledger, the registry and the recent circuits are empty, no profile and
\* no circuit is selected, and the five persisted records are absent
C20_ResetClearsEverything ==
    [][ confirmResetAllData =>
            /\ times' = <<>>
            /\ profiles' = <<>>
            /\ recentCircuitsList' = <<>>
            /\ selectedProfileId' = <<>>
            /\ selectedCircuit' = <<>>
            /\ localStorage'.times = Absent
            /\ localStorage'.profiles = Absent
            /\ localStorage'.recentCircuits = Absent
            /\ localStorage'.showRelativeTime = Absent
            /\ localStorage'.csvBackup = Absent ]_vars

\* the store was reset after the relative-date preference had been saved:
\* memory and the five records are empty, the switch alone keeps its value
C20_Witness ==
    /\ times = <<>> /\ profiles = <<>> /\ recentCircuitsList = <<>>
    /\ selectedProfileId = <<>> /\ selectedCircuit = <<>>
    /\ localStorage = EmptyStorage
    /\ showRelativeTime
    /\ showConfetti

---------------------------------------------------------------------------
(* The profiles of an import: files of a few rows over two combinations
   of character, outfit and kart, decoded on a registry built by hand and
   by earlier imports *)

ResolveRows    == {ValidRow, LenientRow, BadTimeRow}
MaxResolveRows == 2
MaxResolveProfiles == 1

ResolveTexts ==
    {TextOf(<<GoodHeader>> \o rows) :
        rows \in UNION {[1..n -> ResolveRows] : n \in 1..MaxResolveRows}}

NextResolve ==
    \/ \E f \in {MarioForm, LuigiForm} :
         Len(profiles) < MaxResolveProfiles /\ createProfile(f[1], f[2], f[3])
    \/ \E text \in ResolveTexts : \E rnds \in RandomDraws(text) : importFromCSV(text, rnds)
    \/ cancelImport

SpecResolve == Init /\ [][NextResolve]_vars

\* (character, outfit, kart) as the row of the file gives them
RowTriple(text, line) ==
    LET csvEntry == CsvEntryOf(ImportHeaders(ImportLines(text)), parseCSVLine(line))
    IN  <<csvEntry.character, csvEntry.outfit, csvEntry.kart>>

\* the combinations of the valid rows of the text, in file order
RECURSIVE TriplesFrom(_, _, _)
TriplesFrom(text, rows, k) ==
    IF k > Len(rows) THEN <<>>
    ELSE <<RowTriple(text, rows[k])>> \o TriplesFrom(text, rows, k + 1)

ValidTriples(text) == TriplesFrom(text, ValidRows(text), 1)

ProfileTriple(profile) == <<profile.character, profile.characterSkin, profile.vehicle>>

\* the step is a decode that stages a batch
StagingStep == ~showImportConfirmation /\ showImportConfirmation' /\ lastInput' # <<>>

\* C21: a decode resolves the profile of every valid row: the staged entry
\* carries the id of a registered profile with the row's character, outfit
\* and kart; a profile that was registered with that combination is reused;
\* the registry grows at its end by one profile for each combination that
\* was not registered; rows of one combination share one profile id
C21_ImportResolvesProfiles ==
    [][ StagingStep =>
          \A triples \in {ValidTriples(lastInput')} :
            LET known == {ProfileTriple(profiles[i]) : i \in 1..Len(profiles)}
                fresh == {triples[k] : k \in 1..Len(triples)} \ known
                added == (Len(profiles) + 1)..Len(profiles')
            IN  /\ Len(pendingImportData') = Len(triples)
                /\ \A k \in 1..Len(triples) :
                     \E i \in 1..Len(profiles') :
                         /\ profiles'[i].id = pendingImportData'[k].profileId
                         /\ ProfileTriple(profiles'[i]) = triples[k]
                /\ \A k \in 1..Len(triples) :
                     triples[k] \in known =>
                         \E i \in 1..Len(profiles) :
                             /\ profiles[i].id = pendingImportData'[k].profileId
                             /\ ProfileTriple(profiles[i]) = triples[k]
                /\ Len(profiles') >= Len(profiles)
                /\ SubSeq(profiles', 1, Len(profiles)) = profiles
                /\ Len(profiles') = Len(profiles) + Cardinality(fresh)
                /\ {ProfileTriple(profiles'[i]) : i \in added} = fresh
                /\ \A k, l \in 1..Len(triples) :
                     triples[k] = triples[l] =>
                         pendingImportData'[k].profileId = pendingImportData'[l].profileId ]_vars

\* a file of two rows of one new combination was decoded on a registry that
\* holds another combination: one profile was added and both staged entries
\* carry its id
C21_Witness ==
    /\ showImportConfirmation
    /\ lastInput = TextOf(<<GoodHeader, LenientRow, LenientRow>>)
    /\ Len(profiles) = 2
    /\ ProfileTriple(profiles[1]) = <<Mario, Mario, StandardBike>>
    /\ ProfileTriple(profiles[2]) = <<Luigi, <<>>, <<>> >>
    /\ profiles[2].id = ImportProfileId(now, "r1")
    /\ Len(pendingImportData) = 2
    /\ pendingImportData[1].profileId = profiles[2].id
    /\ pendingImportData[2].profileId = profiles[2].id

---------------------------------------------------------------------------
(* Properties of the two identities of an entry *)

\* findIndex of getActualTimeIndex cannot tell a from b
SameForFindIndex(a, b) == getActualTimeIndex(a, <<b>>) = 1

\* C22: two entries of the ledger have the same key in the ranking table
\* exactly when findIndex cannot tell them apart, that is when they agree on
\* time, circuit, date and profile id
C22_RankKeyIsFindIndexIdentity ==
    \A i, j \in 1..Len(times) :
        (RankKey(times[i]) = RankKey(times[j])) <=> SameForFindIndex(times[i], times[j])

---------------------------------------------------------------------------
(* The two time grammars: files of one row whose race_time runs over the
   strings of the shape minutes, separator, seconds, separator, thousandths *)

MaxMinuteDigits == 3

Repeat(c, n) == [i \in 1..n |-> c]

SecondDigits == {"0", "5", "6", "9"}
Separators   == {<<":">>, <<".">>}

TimeCandidates ==
    {Repeat("1", m) \o s1 \o secs \o s2 \o Repeat("0", n) :
        m \in 0..MaxMinuteDigits, s1 \in Separators, s2 \in Separators,
        secs \in [1..1 -> SecondDigits] \cup [1..2 -> SecondDigits], n \in {2, 3, 4}}

GrammarRow(raceTime) ==
    Join(<<toISOString(0), MarioCircuit, Mario, Mario, StandardBike, raceTime>>, Comma)

GrammarTexts == {TextOf(<<GoodHeader, GrammarRow(t)>>) : t \in TimeCandidates}

InitGrammar == Setup /\ lastInput \in GrammarTexts

NextGrammar ==
    \/ \E rnds \in RandomDraws(lastInput) : lastInput # <<>> /\ importFromCSV(lastInput, rnds)
    \/ cancelImport

SpecGrammar == InitGrammar /\ [][NextGrammar]_vars

\* the race_time of the one row of the file
RaceTimeOf(text) == RowFields(text, DataRows(text)[1])[5]

\* the digits of timeStr before its first colon, and the first digit behind it
MinuteDigits(timeStr)     == Split(timeStr, ":")[1]
FirstSecondDigit(timeStr) == Split(timeStr, ":")[2][1]

\* C23: the grammar of the import takes every time the strict grammar of the
\* direct entry takes, and what it takes beyond those are times with seconds
\* above 59 or with three or more minute digits
C23_ImportGrammarIsWider ==
    DecodeEnded =>
        \A t \in {RaceTimeOf(lastInput)} :
            /\ isValidTimeFormat(t) =>
                   /\ showImportConfirmation
                   /\ Len(pendingImportData) = 1
                   /\ pendingImportData[1].time = t
            /\ (showImportConfirmation /\ ~isValidTimeFormat(t)) =>
                   \/ Len(MinuteDigits(t)) >= 3
                   \/ FirstSecondDigit(t) \in {"6", "7", "8", "9"}

\* the import has staged a time of one minute digit and 95 seconds, which
\* the strict grammar refuses
C23_Witness ==
    /\ showImportConfirmation
    /\ lastInput = TextOf(<<GoodHeader, GrammarRow(<<"1", ":", "9", "5", ".", "0", "0", "0">>)>>)
    /\ Len(pendingImportData) = 1
    /\ pendingImportData[1].time = <<"1", ":", "9", "5", ".", "0", "0", "0">>
    /\ ~isValidTimeFormat(pendingImportData[1].time)

---------------------------------------------------------------------------
(* The gate of the add: every short sequence of digits typed into the
   empty time field, with and without a circuit and a profile, and the add
   pressed *)

GateDigits    == {"0", "9"}
MaxGateTyped  == 8
MaxGateTimes  == 1

GateInputs == UNION {[1..n -> GateDigits] : n \in 1..MaxGateTyped}

NextGate ==
    \/ Len(profiles) < MaxProfiles /\ createProfile(MarioForm[1], MarioForm[2], MarioForm[3])
    \/ selectCircuit(MarioCircuit)
    \/ \E v \in GateInputs : formState.time = <<>> /\ times = <<>> /\ formatTimeInput(v)
    \/ Len(times) < MaxGateTimes /\ addTime

SpecGate == Init /\ [][NextGate]_vars

\* the seconds of a time, the two characters behind its colon
SecondsOf(timeStr) == ParseInt(JsSlice(Split(timeStr, ":")[2], 0, 2))

---------------------------------------------------------------------------
(* The order of the ledger: times added at two instants, edited, removed,
   and the table rendered in between *)

MaxOrderTimes == 3

\* the clock advances between the first add and the second, outside an edit
NextOrder ==
    \/ Len(times) = 1 /\ editingTimeId = <<>> /\ Tick(MaxClock)
    \/ Len(profiles) < MaxProfiles /\ createProfile(MarioForm[1], MarioForm[2], MarioForm[3])
    \/ selectCircuit(MarioCircuit)
    \/ formatTimeInput(Typed115000)
    \/ Len(times) < MaxOrderTimes /\ addTime
    \/ \E i \in 1..Len(times) :
         ~RowInEdit(times[i]) /\ confirmRemoveTime(getActualTimeIndex(times[i], times))
    \/ \E i \in 1..Len(times) : startEdit(times[i])
    \/ setEditField("character", Luigi)
    \/ saveEdit
    \/ cancelEdit
    \/ renderTable

SpecOrder == Init /\ [][NextOrder]_vars

\* ts without its position i
WithoutPosition(ts, i) == SubSeq(ts, 1, i - 1) \o SubSeq(ts, i + 1, Len(ts))

\* C25: the ledger keeps the order of insertion: an add puts its entry at
\* the end, an edit changes one position and no length, a remove takes one
\* position out and keeps the rest in order, and the rendering of the table,
\* with its display order and its ranking, leaves the ledger as it was; the
\* ledger changes at no other step
C25_LedgerKeepsInsertionOrder ==
    [][ /\ addTime =>
             \/ times' = times
             \/ /\ Len(times') = Len(times) + 1
                /\ SubSeq(times', 1, Len(times)) = times
        /\ saveEdit =>
             /\ Len(times') = Len(times)
             /\ \A i \in 1..Len(times) :
                  \/ times'[i] = times[i]
                  \/ /\ editingTimeId = <<i>>
                     /\ times'[i].date = times[i].date
                     /\ times'[i].profileId = times[i].profileId
        /\ (\E k \in 1..Len(times) : confirmRemoveTime(k)) =>
             \E i \in 1..Len(times) : times' = WithoutPosition(times, i)
        /\ renderTable => times' = times
        /\ times' # times =>
             \/ addTime \/ saveEdit \/ \E k \in 1..Len(times) : confirmRemoveTime(k) ]_vars

\* the ledger holds two entries in the order of their adds, the first one
\* edited, while the display order shows the younger one first
C25_Witness ==
    /\ Len(times) = 2
    /\ times[1].date = toISOString(0) /\ times[1].character = Luigi
    /\ times[2].date = toISOString(1) /\ times[2].character = Mario
    /\ sortedTimesComputed(times).value = <<times[2], times[1]>>
    /\ editingTimeId = <<>>

---------------------------------------------------------------------------
(* The edit session: times added in different milliseconds, one of them in
   edit while other rows are removed and times are added *)

MaxSessionTimes == 3
MaxSessionClock == 2

\* the clock advances behind an add, outside an edit
NextSession ==
    \/ Len(times) = now + 1 /\ editingTimeId = <<>> /\ Tick(MaxSessionClock)
    \/ Len(profiles) < MaxProfiles /\ createProfile(MarioForm[1], MarioForm[2], MarioForm[3])
    \/ selectCircuit(MarioCircuit)
    \/ formatTimeInput(Typed115000)
    \/ /\ Len(times) < MaxSessionTimes
       /\ \A i \in 1..Len(times) : times[i].date # toISOString(now)
       /\ addTime
    \/ \E i \in 1..Len(times) :
         ~RowInEdit(times[i]) /\ confirmRemoveTime(getActualTimeIndex(times[i], times))
    \/ \E i \in 1..Len(times) : startEdit(times[i])
    \/ setEditField("character", Luigi)
    \/ saveEdit
    \/ cancelEdit

SpecSession == Init /\ [][NextSession]_vars

\* C26: an edit session stays on the entry it was started on: a step that
\* leaves the session open with a row shown in edit, the row that carries
\* the save button, leaves the entry at the session's index as it was, so
\* that saveEdit, which writes at that index alone, writes the entry the
\* session was started on
C26_EditSessionKeepsItsEntry ==
    [][ /\ (editingTimeId # <<>> /\ editingTimeId' = editingTimeId /\ EditRowShown') =>
              /\ editingTimeId[1] \in 1..Len(times)
              /\ times'[editingTimeId[1]] = times[editingTimeId[1]]
        /\ (saveEdit /\ times' # times) =>
              \A i \in 1..Len(times) : i # editingTimeId[1] => times'[i] = times[i] ]_vars

---------------------------------------------------------------------------
(* Properties of the registry around an import *)

\* the step is the decode of a chosen file
DecodeStep == PageActive /\ lastInput' # <<>>

\* C27: profiles are registered only when a batch is committed: neither the
\* decode of a file nor the cancel of its batch changes the registry, so
\* that a decode followed by a cancel leaves the registry as it was
C27_CancelledImportKeepsRegistry ==
    [][ (DecodeStep \/ cancelImport) => profiles' = profiles ]_vars

---------------------------------------------------------------------------
(* Properties of the medals *)

\* the positions of the ledger on circuit that the lookup gives rank
RankedAt(circuit, rank) ==
    {i \in 1..Len(times) : /\ times[i].circuit = circuit
                           /\ getTimeRanking(times[i], times) = rank}

\* C28: on every circuit of the ledger each of the ranks 1, 2 and 3 is looked
\* up for exactly one entry when the circuit has that many entries and for
\* none otherwise, and no entry of the circuit is faster than the one with
\* the gold medal
C28_OneMedalPerRank ==
    \A c \in {times[i].circuit : i \in 1..Len(times)} :
        LET n == Cardinality({i \in 1..Len(times) : times[i].circuit = c})
        IN  /\ \A rank \in 1..3 :
                 Cardinality(RankedAt(c, rank)) = IF n >= rank THEN 1 ELSE 0
            /\ \A i \in RankedAt(c, 1) :
                 /\ MedalColor(getTimeRanking(times[i], times)) = "gold"
                 /\ \A j \in 1..Len(times) :
                      times[j].circuit = c =>
                          ~NumLess(convertTimeToSeconds(times[j].time),
                                   convertTimeToSeconds(times[i].time))

---------------------------------------------------------------------------
(* Export and import again, on a ledger with double quotes and newlines:
   a fresh page over a store whose times record names such circuits and
   characters; no list of the page holds such a name, and no import stages
   one, so that the store is their only way in *)

QuoteCircuit   == <<"R", Quote, "R">>
NewLineCircuit == <<"R", NewLine, "R">>
QuoteMario     == <<Quote, "M", Quote>>

QuotedEntries ==
    {TimeEntry(StrictTime, c, NewProfileId(0), toISOString(0), StandardBike, ch) :
        c \in {MarioCircuit, QuoteCircuit, NewLineCircuit}, ch \in {Mario, QuoteMario}}

MaxQuotedTimes == 2

QuotedStores ==
    [times            : {Stored(JsonStringify(ts)) :
                            ts \in UNION {[1..n -> QuotedEntries] : n \in 1..MaxQuotedTimes}},
     profiles         : {Stored(JsonStringify(<<StoredProfile>>))},
     recentCircuits   : {Absent},
     showRelativeTime : {Absent},
     csvBackup        : {Absent}]

InitQuoted ==
    /\ times = <<>>
    /\ profiles = <<>>
    /\ selectedProfileId = <<>>
    /\ selectedCircuit = <<>>
    /\ recentCircuitsList = <<>>
    /\ formState = EmptyFormState
    /\ editingTimeId = <<>>
    /\ editForm = EmptyEditForm
    /\ pendingImportData = <<>>
    /\ importErrorCount = 0
    /\ showImportConfirmation = FALSE
    /\ showConfetti = FALSE
    /\ showRelativeTime = FALSE
    /\ localStorage \in QuotedStores
    /\ now = 0
    /\ lastAlert = NoAlert
    /\ lastInput = <<>>

NextQuoted ==
    \/ times = <<>> /\ loadFromLocalStorage
    \/ exportToCSV
    \/ \E text \in ExportedNow : \E rnds \in RandomDraws(text) : importFromCSV(text, rnds)
    \/ confirmImportReplace
    \/ cancelImport

SpecQuoted == InitQuoted /\ [][NextQuoted]_vars

\* piece occurs in text
Contains(text, piece) ==
    \E k \in 0..(Len(text) - Len(piece)) : SubSeq(text, k + 1, k + Len(piece)) = piece

\* some circuit or character of the ledger holds a double quote or a newline
LedgerIsQuoted ==
    \E i \in 1..Len(times) :
        \E v \in {times[i].circuit, times[i].character} :
            Includes(v, Quote) \/ Includes(v, NewLine)

\* C29: a value with a double quote or a newline survives export and import:
\* the export writes it between double quotes with its quotes doubled, and
\* the decode of the export stages one entry for each entry of the ledger,
\* equal to it in date, circuit, character, vehicle and time
C29_QuotedValuesRoundTrip ==
    (LedgerIsQuoted /\ DecodeEnded /\ lastInput = CsvContent(times, profiles)) =>
        /\ \A i \in 1..Len(times) :
             \A v \in {times[i].circuit, times[i].character} :
                 (Includes(v, Quote) \/ Includes(v, NewLine)) =>
                     Contains(lastInput, <<Quote>> \o DoubleQuotes(v) \o <<Quote>>)
        /\ showImportConfirmation
        /\ Len(pendingImportData) = Len(times)
        /\ \A i \in 1..Len(times) :
             EntryFields(pendingImportData[i]) = EntryFields(times[i])

---------------------------------------------------------------------------
(* The selection of the active profile: a page on which profiles are
   created, selected, deleted and imported, which is reset and opened again
   over the store it wrote *)

MaxSelectionProfiles == 2
MaxSelectionClock    == 1

\* a file whose row names a profile the registry may lack
SelectionText == TextOf(<<GoodHeader, LenientRow>>)

NextSelection ==
    \/ Len(profiles) = 1 /\ times = <<>> /\ formState.time = <<>> /\ Tick(MaxSelectionClock)
    \/ \E f \in {MarioForm, LuigiForm} :
         Len(profiles) < MaxSelectionProfiles /\ createProfile(f[1], f[2], f[3])
    \/ \E i \in 1..Len(profiles) : selectProfile(profiles[i].id)
    \/ \E i \in 1..Len(profiles) : confirmDeleteProfile(profiles[i].id)
    \/ selectedCircuit = <<>> /\ selectCircuit(MarioCircuit)
    \/ formState.time = <<>> /\ selectedCircuit # <<>> /\ formatTimeInput(Typed115000)
    \/ times = <<>> /\ addTime
    \/ /\ Len(profiles) < MaxSelectionProfiles
       /\ importFromCSV(SelectionText, [i \in {1} |-> "r1"])
    \/ confirmImportReplace
    \/ cancelImport
    \/ confirmResetAllData
    \/ loadFromLocalStorage

SpecSelection == Init /\ [][NextSelection]_vars

\* the selection is empty or the id of a profile of the registry
SelectionIsLive ==
    selectedProfileId = <<>> \/ \E i \in 1..Len(profiles) : profiles[i].id = selectedProfileId

\* C30: the active profile selection is always empty or the id of a profile
\* of the registry, and every entry add appends has the id, the character
\* and the vehicle of one profile that is in the registry at that step
C30_SelectionIsLiveProfile ==
    /\ []SelectionIsLive
    /\ [][ (addTime /\ addTimeAccepts) =>
             /\ times' = Append(times, times'[Len(times')])
             /\ \E i \in 1..Len(profiles) :
                  /\ times'[Len(times')].profileId = profiles[i].id
                  /\ times'[Len(times')].character = profiles[i].character
                  /\ times'[Len(times')].vehicle = profiles[i].vehicle ]_vars

\* an entry added under an imported profile, which was deleted afterwards
C30_Witness ==
    /\ Len(times) = 1
    /\ times[1].profileId = ImportProfileId(times[1].profileId[2], "r1")
    /\ times[1].character = Luigi
    /\ times[1].date # <<"X">>
    /\ selectedProfileId = <<>>
    /\ \A i \in 1..Len(profiles) : profiles[i].id # times[1].profileId

=============================================================================
